---- MODULE Spec2Model ----
(***************************************************************************)
(* A model of python-eq3bt: the thermostat mirror kept by                  *)
(* eq3bt.eq3btsmart.Thermostat, the notification callback that updates it  *)
(* (handle_notification, with the construct records of eq3bt.structures)   *)
(* and the command operations that write payloads to the link.             *)
(*                                                                         *)
(* Conventions.                                                            *)
(*  - A payload is a sequence of bytes (0..255).                           *)
(*  - Temperatures are integers counting QUARTER degrees Celsius, so that  *)
(*    the half-degree wire encoding (int(t * 2), raw / 2.0) is a real      *)
(*    conversion: 4.5 C is 18, 5.0 C is 20, 29.5 C is 118, 30.0 C is 120.  *)
(*  - Python's None is the empty tuple, a present value v is <<v>>.        *)
(*  - An exception is the name of its class; "none" means a normal return. *)
(***************************************************************************)
EXTENDS Integers, Sequences, FiniteSets, TLC

VARIABLES
    mirror,   \* the Thermostat object's fields (the local mirror of the device)
    prev,     \* the mirror when the current top-level call began
    notif,    \* the notification handled in that call, None when there was none
    raised,   \* the exception the last call ended with, "none" if it returned
    call,     \* the command operation called last: [op, arg]
    writes,   \* the payloads that operation has written to the link, in order
    pc,       \* the caller: "idle", "wait" (in make_request) or "resume"
    pend,     \* the mode the mode setter goes on to write once boost is off
    link,     \* the connection object: its backend and where make_request is
    codec     \* a value taken through an adapter: [fn, arg, enc, dec]

vars == <<mirror, prev, notif, raised, call, writes, pc, pend, link, codec>>

None == <<>>
Some(v) == <<v>>

----------------------------------------------------------------------------
(* Protocol constants, src/eq3bt/eq3btsmart.py and src/eq3bt/structures.py *)

PROP_ID_QUERY == 0
PROP_ID_RETURN == 1
PROP_INFO_QUERY == 3
PROP_INFO_RETURN == 2
PROP_COMFORT_ECO_CONFIG == 17
PROP_OFFSET == 19
PROP_WINDOW_OPEN_CONFIG == 20
PROP_SCHEDULE_QUERY == 32
PROP_SCHEDULE_RETURN == 33
PROP_MODE_WRITE == 64
PROP_TEMPERATURE_WRITE == 65
PROP_COMFORT == 67
PROP_ECO == 68
PROP_BOOST == 69
PROP_LOCK == 128

\* quarter degrees: 12.0, 5.0, 29.5, 4.5 and 30.0 C
EQ3BT_AWAY_TEMP == 48
EQ3BT_MIN_TEMP == 20
EQ3BT_MAX_TEMP == 118
EQ3BT_OFF_TEMP == 18
EQ3BT_ON_TEMP == 120

\* Mode.Unknown is the IntEnum value -1; as a temperature it is -1.0 C
ModeUnknownValue == -1
ModeUnknownTemp == -4

HOUR_24_PLACEHOLDER == 1234

\* ModeFlags bit masks
MANUAL == 1
AWAY == 2
BOOST == 4
DST == 8
WINDOW == 16
LOCKED == 32
LOW_BATTERY == 128

Modes == {"Unknown", "Closed", "Open", "Auto", "Manual", "Away", "Boost"}

----------------------------------------------------------------------------
(* Bytes and bits *)

\* flags & mask for a one-bit mask, as FlagsEnum tests it
Flag(flags, mask) == (flags \div mask) % 2 = 1

RECURSIVE BitOr(_, _)
BitOr(a, b) ==
    IF a = 0 THEN b
    ELSE IF b = 0 THEN a
    ELSE 2 * BitOr(a \div 2, b \div 2) + (IF a % 2 = 1 \/ b % 2 = 1 THEN 1 ELSE 0)

\* data[i:] of Python for a 1-based position
Drop(data, n) == SubSeq(data, n + 1, Len(data))
Take(data, n) == SubSeq(data, 1, n)

----------------------------------------------------------------------------
(* eq3bt.structures: the adapters *)

\* TempAdapter._decode: float(obj / 2.0), in quarter degrees
TempDecode(raw) == raw * 2

\* int(x / 2) for a quarter-degree count x: truncation toward zero
Trunc2(x) == IF x >= 0 THEN x \div 2 ELSE -((-x) \div 2)

TempEncodeWholeDegrees(obj) == 2 * Trunc2(Trunc2(obj))

\* TempAdapter._encode: int(obj * 2.0)
TempEncode(obj) == Trunc2(obj)

\* WindowOpenTimeAdapter._decode: timedelta(minutes=obj * 5.0), in minutes
WindowOpenTimeDecode(raw) == raw * 5

\* TempOffsetAdapter._decode: float((obj - 7) / 2.0), in quarter degrees
TempOffsetDecode(raw) == (raw - 7) * 2

\* TempOffsetAdapter._encode: ValueError outside [-3.5, 3.5], else
\* int(obj * 2.0) + 7
TempOffsetEncodeError(obj) ==
    IF -14 <= obj /\ obj <= 14 THEN "none" ELSE "ValueError"

TempOffsetEncodeUnbiased(obj) == Trunc2(obj)

TempOffsetEncode(obj) == Trunc2(obj) + 7

IsLeap(y) == (y % 4 = 0 /\ y % 100 # 0) \/ y % 400 = 0

DaysInMonth(y, m) ==
    IF m = 2 THEN (IF IsLeap(y) THEN 29 ELSE 28)
    ELSE IF m \in {4, 6, 9, 11} THEN 30 ELSE 31

\* what datetime(year, month, day, hour, minute) accepts
DatetimeOk(y, mo, d, h, mi) ==
    /\ y \in 1..9999
    /\ mo \in 1..12
    /\ d \in 1..DaysInMonth(y, mo)
    /\ h \in 0..23
    /\ mi \in 0..59

\* AwayDataAdapter._decode on the 4 bytes (day, year, hour_min, month)
AwayDecodeOk(b) == DatetimeOk(b[2] + 2000, b[4], b[1], b[3] \div 2, 0)

AwayDecodeOnTheHour(b) ==
    [year |-> b[2] + 2000, month |-> b[4], day |-> b[1],
     hour |-> b[3] \div 2, minute |-> 0]

AwayDecode(b) ==
    [year |-> b[2] + 2000, month |-> b[4], day |-> b[1],
     hour |-> b[3] \div 2, minute |-> IF b[3] % 2 = 1 THEN 30 ELSE 0]

\* TimeAdapter._decode: divmod(obj * 10, 60), 24:xx is the placeholder
TimeDecodeOk(raw) == (raw * 10) \div 60 <= 24

TimeDecode(raw) ==
    IF (raw * 10) \div 60 = 24 THEN Some(HOUR_24_PLACEHOLDER)
    ELSE <<(raw * 10) \div 60, (raw * 10) % 60>>

TimeEncodeFoldsMidnight(obj) ==
    IF obj = Some(HOUR_24_PLACEHOLDER) THEN 0
    ELSE (obj[1] * 60 + obj[2]) \div 10

\* TimeAdapter._encode: int(24 * 60 / 10) for the placeholder, else
\* int((obj.hour * 60 + obj.minute) / 10)
TimeEncode(obj) ==
    IF obj = Some(HOUR_24_PLACEHOLDER) THEN (24 * 60) \div 10
    ELSE (obj[1] * 60 + obj[2]) \div 10

\* DeviceSerialAdapter._decode: bytearray(n - 0x30 for n in obj).decode().
\* A byte below 0x30 is a ValueError; a byte from 0xB0 on gives a character
\* above 127, which (standing alone) is not UTF-8.
SerialDecodeOk(bytes) == \A i \in 1..Len(bytes) : bytes[i] >= 48 /\ bytes[i] < 176

SerialDecode(bytes) == [i \in 1..Len(bytes) |-> bytes[i] - 48]

----------------------------------------------------------------------------
(* eq3bt.structures: the records.  A parse is [err |-> exception name] or  *)
(* [err |-> "none", ...fields].                                            *)

Failed(e) == [err |-> e]

PresetsParseEcoFirst(rest) ==
    IF Len(rest) < 5 THEN None
    ELSE Some([window_open_temp |-> TempDecode(rest[1]),
               window_open_time |-> WindowOpenTimeDecode(rest[2]),
               comfort_temp |-> TempDecode(rest[4]),
               eco_temp |-> TempDecode(rest[3]),
               offset |-> TempOffsetDecode(rest[5])])

\* the "presets" member: Optional(Struct(5 bytes)), None when fewer remain
PresetsParse(rest) ==
    IF Len(rest) < 5 THEN None
    ELSE Some([window_open_temp |-> TempDecode(rest[1]),
               window_open_time |-> WindowOpenTimeDecode(rest[2]),
               comfort_temp |-> TempDecode(rest[3]),
               eco_temp |-> TempDecode(rest[4]),
               offset |-> TempOffsetDecode(rest[5])])

\* the "away" member with the AWAY flag set: AwayDataAdapter(Bytes(4))
AwayFieldError(rest) ==
    IF Len(rest) < 4 THEN "StreamError"
    ELSE IF ~AwayDecodeOk(Take(rest, 4)) THEN "ValueError"
    ELSE "none"

\* Status.parse up to the temperature byte: the two constants that open the
\* record, flags, valve, the constant 0x04 and the temperature
StatusHeaderErrorNoConst4(data) ==
    IF Len(data) < 1 THEN "StreamError"
    ELSE IF data[1] # PROP_INFO_RETURN THEN "ConstError"
    ELSE IF Len(data) < 2 THEN "StreamError"
    ELSE IF data[2] # 1 THEN "ConstError"
    ELSE IF Len(data) < 6 THEN "StreamError"
    ELSE "none"

StatusHeaderError(data) ==
    IF Len(data) < 1 THEN "StreamError"
    ELSE IF data[1] # PROP_INFO_RETURN THEN "ConstError"
    ELSE IF Len(data) < 2 THEN "StreamError"
    ELSE IF data[2] # 1 THEN "ConstError"
    ELSE IF Len(data) < 5 THEN "StreamError"
    ELSE IF data[5] # 4 THEN "ConstError"
    ELSE IF Len(data) < 6 THEN "StreamError"
    ELSE "none"

StatusParseStrictPadding(data) ==
    IF StatusHeaderError(data) # "none" THEN Failed(StatusHeaderError(data))
    ELSE LET flags == data[3]
             rest == Drop(data, 6)
         IN  IF Flag(flags, AWAY)
             THEN IF AwayFieldError(rest) # "none"
                  THEN Failed(AwayFieldError(rest))
                  ELSE [err |-> "none", mode |-> flags, valve |-> data[4],
                        target_temp |-> TempDecode(data[6]),
                        away |-> Some(AwayDecode(Take(rest, 4))),
                        presets |-> PresetsParse(Drop(rest, 4))]
             ELSE IF Len(rest) >= 4
                  THEN [err |-> "none", mode |-> flags, valve |-> data[4],
                        target_temp |-> TempDecode(data[6]),
                        away |-> Some(Take(rest, 4)),
                        presets |-> PresetsParse(Drop(rest, 4))]
                  ELSE IF Len(rest) > 0 THEN Failed("StreamError")
                  ELSE [err |-> "none", mode |-> flags, valve |-> data[4],
                        target_temp |-> TempDecode(data[6]),
                        away |-> None,
                        presets |-> None]

\* Status.parse
StatusParse(data) ==
    IF StatusHeaderError(data) # "none" THEN Failed(StatusHeaderError(data))
    ELSE LET flags == data[3]
             rest == Drop(data, 6)
         IN  IF Flag(flags, AWAY)
             THEN IF AwayFieldError(rest) # "none"
                  THEN Failed(AwayFieldError(rest))
                  ELSE [err |-> "none", mode |-> flags, valve |-> data[4],
                        target_temp |-> TempDecode(data[6]),
                        away |-> Some(AwayDecode(Take(rest, 4))),
                        presets |-> PresetsParse(Drop(rest, 4))]
             \* Optional(Bytes(4)): the 4 bytes when there are 4, else None
             \* with the stream put back where it was
             ELSE IF Len(rest) >= 4
                  THEN [err |-> "none", mode |-> flags, valve |-> data[4],
                        target_temp |-> TempDecode(data[6]),
                        away |-> Some(Take(rest, 4)),
                        presets |-> PresetsParse(Drop(rest, 4))]
                  ELSE [err |-> "none", mode |-> flags, valve |-> data[4],
                        target_temp |-> TempDecode(data[6]),
                        away |-> None,
                        presets |-> PresetsParse(rest)]

\* the "hours" member: GreedyRange of (target_temp, next_change_at) pairs,
\* ended by the first pair that does not parse
RECURSIVE HoursParse(_)
HoursParse(rest) ==
    IF Len(rest) < 2 \/ ~TimeDecodeOk(rest[2]) THEN <<>>
    ELSE <<[target_temp |-> TempDecode(rest[1]),
            next_change_at |-> TimeDecode(rest[2])]>> \o HoursParse(Drop(rest, 2))

\* Schedule.parse; an Enum byte outside its names parses as the integer
ScheduleParse(data) ==
    IF Len(data) < 4 THEN Failed("StreamError")
    ELSE IF ~TimeDecodeOk(data[4]) THEN Failed("ValueError")
    ELSE [err |-> "none", cmd |-> data[1], day |-> data[2],
          base_temp |-> TempDecode(data[3]),
          next_change_at |-> TimeDecode(data[4]),
          hours |-> HoursParse(Drop(data, 4))]

DeviceIdParseNoTrailer(data) ==
    IF Len(data) < 1 THEN Failed("StreamError")
    ELSE IF data[1] # PROP_ID_RETURN THEN Failed("ConstError")
    ELSE IF Len(data) < 14 THEN Failed("StreamError")
    ELSE IF ~SerialDecodeOk(SubSeq(data, 5, 14)) THEN Failed("ValueError")
    ELSE [err |-> "none", version |-> data[2],
          serial |-> SerialDecode(SubSeq(data, 5, 14))]

\* DeviceId.parse
DeviceIdParse(data) ==
    IF Len(data) < 1 THEN Failed("StreamError")
    ELSE IF data[1] # PROP_ID_RETURN THEN Failed("ConstError")
    ELSE IF Len(data) < 14 THEN Failed("StreamError")
    ELSE IF ~SerialDecodeOk(SubSeq(data, 5, 14)) THEN Failed("ValueError")
    ELSE IF Len(data) < 15 THEN Failed("StreamError")
    ELSE [err |-> "none", version |-> data[2],
          serial |-> SerialDecode(SubSeq(data, 5, 14))]

----------------------------------------------------------------------------
(* eq3bt.eq3btsmart.Thermostat: the mirror and handle_notification *)

\* Thermostat.__init__
InitMirror ==
    [target_temperature |-> ModeUnknownTemp,
     mode |-> "Unknown",
     valve_state |-> ModeUnknownValue,
     raw_mode |-> None,
     schedule |-> <<>>,
     window_open_temperature |-> None,
     window_open_time |-> None,
     comfort_temperature |-> None,
     eco_temperature |-> None,
     temperature_offset |-> None,
     away_end |-> None,
     firmware_version |-> None,
     device_serial |-> None]

DerivedModeManualFirst(status) ==
    IF Flag(status.mode, BOOST) THEN "Boost"
    ELSE IF Flag(status.mode, MANUAL)
         THEN IF status.target_temp = EQ3BT_OFF_TEMP THEN "Closed"
              ELSE IF status.target_temp = EQ3BT_ON_TEMP THEN "Open"
              ELSE "Manual"
    ELSE IF Flag(status.mode, AWAY) THEN "Away"
    ELSE "Auto"

\* the mode handle_notification derives from a parsed status
DerivedMode(status) ==
    IF Flag(status.mode, BOOST) THEN "Boost"
    ELSE IF Flag(status.mode, AWAY) THEN "Away"
    ELSE IF Flag(status.mode, MANUAL)
         THEN IF status.target_temp = EQ3BT_OFF_TEMP THEN "Closed"
              ELSE IF status.target_temp = EQ3BT_ON_TEMP THEN "Open"
              ELSE "Manual"
    ELSE "Auto"

StatusAwayEndNotStored(m, status) == m.away_end

StatusAwayEndFirstOnly(m, status) ==
    IF ~Flag(status.mode, BOOST) /\ Flag(status.mode, AWAY) /\ m.away_end = None
    THEN status.away ELSE m.away_end

StatusAwayEndCleared(m, status) ==
    IF ~Flag(status.mode, BOOST) /\ Flag(status.mode, AWAY)
    THEN status.away ELSE None

\* the away_end after a parsed status
StatusAwayEnd(m, status) ==
    IF ~Flag(status.mode, BOOST) /\ Flag(status.mode, AWAY)
    THEN status.away ELSE m.away_end

StatusPresetsKept(m, status) ==
    IF status.presets # None
    THEN [window_open_temperature |-> Some(status.presets[1].window_open_temp),
          window_open_time |-> Some(status.presets[1].window_open_time),
          comfort_temperature |-> Some(status.presets[1].comfort_temp),
          eco_temperature |-> Some(status.presets[1].eco_temp),
          temperature_offset |-> Some(status.presets[1].offset)]
    ELSE [window_open_temperature |-> m.window_open_temperature,
          window_open_time |-> m.window_open_time,
          comfort_temperature |-> m.comfort_temperature,
          eco_temperature |-> m.eco_temperature,
          temperature_offset |-> m.temperature_offset]

\* the five preset fields after a parsed status
StatusPresets(m, status) ==
    IF status.presets # None
    THEN [window_open_temperature |-> Some(status.presets[1].window_open_temp),
          window_open_time |-> Some(status.presets[1].window_open_time),
          comfort_temperature |-> Some(status.presets[1].comfort_temp),
          eco_temperature |-> Some(status.presets[1].eco_temp),
          temperature_offset |-> Some(status.presets[1].offset)]
    ELSE [window_open_temperature |-> None,
          window_open_time |-> None,
          comfort_temperature |-> None,
          eco_temperature |-> None,
          temperature_offset |-> None]

ApplyStatusSentinelAsMode(m, status) ==
    LET p == StatusPresets(m, status)
        sentinel == Flag(status.mode, MANUAL)
                        /\ status.target_temp \in {EQ3BT_OFF_TEMP, EQ3BT_ON_TEMP}
    IN  [m EXCEPT !.raw_mode = Some(status.mode),
                  !.valve_state = status.valve,
                  !.target_temperature =
                      IF sentinel THEN m.target_temperature ELSE status.target_temp,
                  !.mode = DerivedMode(status),
                  !.away_end = StatusAwayEnd(m, status),
                  !.window_open_temperature = p.window_open_temperature,
                  !.window_open_time = p.window_open_time,
                  !.comfort_temperature = p.comfort_temperature,
                  !.eco_temperature = p.eco_temperature,
                  !.temperature_offset = p.temperature_offset]

\* the status branch of handle_notification, after Status.parse succeeded
ApplyStatus(m, status) ==
    LET p == StatusPresets(m, status)
    IN  [m EXCEPT !.raw_mode = Some(status.mode),
                  !.valve_state = status.valve,
                  !.target_temperature = status.target_temp,
                  !.mode = DerivedMode(status),
                  !.away_end = StatusAwayEnd(m, status),
                  !.window_open_temperature = p.window_open_temperature,
                  !.window_open_time = p.window_open_time,
                  !.comfort_temperature = p.comfort_temperature,
                  !.eco_temperature = p.eco_temperature,
                  !.temperature_offset = p.temperature_offset]

ApplyScheduleLastOnly(m, parsed) ==
    [m EXCEPT !.schedule =
        [d \in {parsed.day} |->
            [cmd |-> parsed.cmd, day |-> parsed.day,
             base_temp |-> parsed.base_temp,
             next_change_at |-> parsed.next_change_at,
             hours |-> parsed.hours]]]

\* self._schedule[parsed.day] = parsed
ApplySchedule(m, parsed) ==
    [m EXCEPT !.schedule =
        [d \in (DOMAIN m.schedule) \cup {parsed.day} |->
            IF d = parsed.day
            THEN [cmd |-> parsed.cmd, day |-> parsed.day,
                  base_temp |-> parsed.base_temp,
                  next_change_at |-> parsed.next_change_at,
                  hours |-> parsed.hours]
            ELSE m.schedule[d]]]

ApplyDeviceIdOnce(m, parsed) ==
    IF m.device_serial # None THEN m
    ELSE [m EXCEPT !.firmware_version = Some(parsed.version),
                   !.device_serial = Some(parsed.serial)]

\* the device id branch of handle_notification, after DeviceId.parse succeeded
ApplyDeviceId(m, parsed) ==
    [m EXCEPT !.firmware_version = Some(parsed.version),
              !.device_serial = Some(parsed.serial)]

\* the properties read off the mirror: boost is self.mode == Mode.Boost, the
\* other three are "self._raw_mode and self._raw_mode.FLAG", None before the
\* first status
boost_getter(m) == m.mode = "Boost"
window_open_getter(m) == IF m.raw_mode = None THEN None ELSE Some(Flag(m.raw_mode[1], WINDOW))
locked_getter(m) == IF m.raw_mode = None THEN None ELSE Some(Flag(m.raw_mode[1], LOCKED))
low_battery_getter(m) ==
    IF m.raw_mode = None THEN None ELSE Some(Flag(m.raw_mode[1], LOW_BATTERY))

IsStatusAnyTag(data) == Len(data) >= 2 /\ data[2] = 1

\* data[0] == PROP_INFO_RETURN and data[1] == 1, for a payload it can index
IsStatus(data) == data[1] = PROP_INFO_RETURN /\ data[2] = 1

\* Thermostat.handle_notification(data): the mirror it leaves and the
\* exception it ends with
handle_notification(m, data) ==
    IF Len(data) < 1 THEN [mirror |-> m, raised |-> "IndexError"]
    ELSE IF data[1] = PROP_INFO_RETURN /\ Len(data) < 2
         THEN [mirror |-> m, raised |-> "IndexError"]
    ELSE IF IsStatus(data)
         THEN LET status == StatusParse(data)
              IN  IF status.err # "none"
                  THEN [mirror |-> m, raised |-> status.err]
                  ELSE [mirror |-> ApplyStatus(m, status), raised |-> "none"]
    ELSE IF data[1] = PROP_SCHEDULE_RETURN
         THEN LET parsed == ScheduleParse(data)
              IN  IF parsed.err # "none"
                  THEN [mirror |-> m, raised |-> parsed.err]
                  ELSE [mirror |-> ApplySchedule(m, parsed), raised |-> "none"]
    ELSE IF data[1] = PROP_ID_RETURN
         THEN LET parsed == DeviceIdParse(data)
              IN  IF parsed.err # "none"
                  THEN [mirror |-> m, raised |-> parsed.err]
                  ELSE [mirror |-> ApplyDeviceId(m, parsed), raised |-> "none"]
    ELSE [mirror |-> m, raised |-> "none"]

NotificationWritesRequery(m, data) ==
    IF Len(data) >= 1 /\ data[1] \notin {PROP_INFO_RETURN, PROP_SCHEDULE_RETURN,
                                         PROP_ID_RETURN}
    THEN <<<<PROP_ID_QUERY>>>> ELSE <<>>

\* the payloads handle_notification hands to the link: it calls no method of
\* self._conn in any branch
NotificationWrites(m, data) == <<>>

----------------------------------------------------------------------------
(* eq3bt.eq3btsmart.Thermostat: the command operations.  Each builds the   *)
(* payload it hands to make_request, or raises: [err, payload].            *)

Ok(p) == [err |-> "none", payload |-> p]
Err(e) == [err |-> e, payload |-> <<>>]

\* struct.pack('B...', ...): every value has to fit a byte
Pack(bytes) ==
    IF \A i \in 1..Len(bytes) : bytes[i] \in 0..255
    THEN Ok(bytes) ELSE Err("struct.error")

\* int(temperature * 2): truncation toward zero of a quarter-degree count
DevTemp(t) == IF t >= 0 THEN t \div 2 ELSE -((-t) \div 2)

\* Thermostat._verify_temperature
verify_temperature(temp) ==
    IF temp < EQ3BT_MIN_TEMP \/ temp > EQ3BT_MAX_TEMP
    THEN "TemperatureException" ELSE "none"

\* Thermostat.query_id
query_id == Pack(<<PROP_ID_QUERY>>)

\* Thermostat.update, with datetime.now() = now
update(now) ==
    Pack(<<PROP_INFO_QUERY, now.year % 100, now.month, now.day,
           now.hour, now.minute, now.second>>)

\* Thermostat.query_schedule: an invalid day is logged and packed all the same
query_schedule(day) == Pack(<<PROP_SCHEDULE_QUERY, day>>)

target_temperature_setter_no_sentinel(temperature) ==
    IF verify_temperature(temperature) # "none"
    THEN Err(verify_temperature(temperature))
    ELSE Pack(<<PROP_TEMPERATURE_WRITE, DevTemp(temperature)>>)

\* Thermostat.target_temperature (setter)
target_temperature_setter(temperature) ==
    IF temperature = EQ3BT_OFF_TEMP \/ temperature = EQ3BT_ON_TEMP
    THEN Pack(<<PROP_MODE_WRITE, BitOr(DevTemp(temperature), 64)>>)
    ELSE IF verify_temperature(temperature) # "none"
         THEN Err(verify_temperature(temperature))
         ELSE Pack(<<PROP_TEMPERATURE_WRITE, DevTemp(temperature)>>)

\* Thermostat.set_mode(mode, payload)
set_mode(mode, payload) ==
    IF mode \notin 0..255 THEN Err("struct.error")
    ELSE Ok(<<PROP_MODE_WRITE, mode>> \o payload)

\* AwayDataAdapter._encode and the Byte[4] it is built into
AwayEncodeError(end) ==
    IF end.year < 2000 \/ end.year > 2099 THEN "Exception" ELSE "none"

AwayEncodeHalfHourOnly(end) ==
    <<end.day, end.year - 2000,
      end.hour * 2 + (IF end.minute = 30 THEN 1 ELSE 0), end.month>>

AwayEncodeRounded(end) ==
    <<end.day, end.year - 2000,
      end.hour * 2 + (IF end.minute >= 30 THEN 1 ELSE 0), end.month>>

AwayEncode(end) ==
    <<end.day, end.year - 2000,
      end.hour * 2 + (IF end.minute # 0 THEN 1 ELSE 0), end.month>>

\* Thermostat.set_away(away_end, temperature); 0x80 | x for a negative x is
\* negative and does not pack
set_away(away_end, temperature) ==
    IF away_end = None THEN set_mode(0, <<>>)
    ELSE IF AwayEncodeError(away_end[1]) # "none"
         THEN Err(AwayEncodeError(away_end[1]))
    ELSE IF DevTemp(temperature) < 0 THEN Err("struct.error")
    ELSE set_mode(BitOr(128, DevTemp(temperature)), AwayEncode(away_end[1]))

boost_setter_inverted(boost) == Pack(<<PROP_BOOST, IF boost THEN 0 ELSE 1>>)

\* Thermostat.boost (setter)
boost_setter(boost) == Pack(<<PROP_BOOST, IF boost THEN 1 ELSE 0>>)

\* Thermostat.locked (setter)
locked_setter(lock) == Pack(<<PROP_LOCK, IF lock THEN 1 ELSE 0>>)

\* Thermostat.window_open_config(temperature, duration), duration.seconds =
\* seconds: "seconds < 0 and seconds > 3600" is never true
window_open_config(temperature, seconds) ==
    IF verify_temperature(temperature) # "none"
    THEN Err(verify_temperature(temperature))
    ELSE IF seconds < 0 /\ seconds > 3600 THEN Err("ValueError")
    ELSE Pack(<<PROP_WINDOW_OPEN_CONFIG, DevTemp(temperature), seconds \div 300>>)

temperature_presets_comfort_only(comfort, eco) ==
    IF verify_temperature(comfort) # "none" THEN Err(verify_temperature(comfort))
    ELSE Pack(<<PROP_COMFORT_ECO_CONFIG, DevTemp(comfort), DevTemp(eco)>>)

\* Thermostat.temperature_presets(comfort, eco)
temperature_presets(comfort, eco) ==
    IF verify_temperature(comfort) # "none" THEN Err(verify_temperature(comfort))
    ELSE IF verify_temperature(eco) # "none" THEN Err(verify_temperature(eco))
    ELSE Pack(<<PROP_COMFORT_ECO_CONFIG, DevTemp(comfort), DevTemp(eco)>>)

temperature_offset_setter_no_upper(offset) ==
    IF offset < -14 THEN Err("TemperatureException")
    ELSE IF offset % 2 # 0 THEN Err("KeyError")
    ELSE Pack(<<PROP_OFFSET, (offset + 14) \div 2>>)

\* Thermostat.temperature_offset (setter): the table maps -3.5 + 0.5 i to i,
\* an offset that is no multiple of 0.5 is not a key of it
temperature_offset_setter(offset) ==
    IF offset < -14 \/ offset > 14 THEN Err("TemperatureException")
    ELSE IF offset % 2 # 0 THEN Err("KeyError")
    ELSE Pack(<<PROP_OFFSET, (offset + 14) \div 2>>)

\* Thermostat.activate_comfort, Thermostat.activate_eco
activate_comfort == Pack(<<PROP_COMFORT>>)
activate_eco == Pack(<<PROP_ECO>>)

Min(a, b) == IF a < b THEN a ELSE b
Max(a, b) == IF a > b THEN a ELSE b

mode_setter_leaves_boost_never(m, mode) == FALSE

\* Thermostat.mode (setter), its first statement: boost is switched off first
mode_setter_leaves_boost(m, mode) == m.mode = "Boost" /\ mode # "Boost"

mode_setter_write_cached(m, mode, end) ==
    IF mode = "Boost" THEN boost_setter(TRUE)
    ELSE IF mode = "Away" THEN set_away(Some(end), EQ3BT_AWAY_TEMP)
    ELSE IF mode = "Closed" THEN set_mode(BitOr(64, DevTemp(EQ3BT_OFF_TEMP)), <<>>)
    ELSE IF mode = "Open" THEN set_mode(BitOr(64, DevTemp(EQ3BT_ON_TEMP)), <<>>)
    ELSE IF mode = "Manual"
         THEN set_mode(BitOr(64, DevTemp(Max(Min(m.target_temperature, EQ3BT_ON_TEMP),
                                             EQ3BT_OFF_TEMP))), <<>>)
    ELSE set_mode(0, <<>>)

\* Thermostat.mode (setter), the rest: the one write for the new mode, with
\* datetime.now() + self._away_duration = end
mode_setter_write(m, mode, end) ==
    IF mode = "Boost" THEN boost_setter(TRUE)
    ELSE IF mode = "Away" THEN set_away(Some(end), EQ3BT_AWAY_TEMP)
    ELSE IF mode = "Closed" THEN set_mode(BitOr(64, DevTemp(EQ3BT_OFF_TEMP)), <<>>)
    ELSE IF mode = "Open" THEN set_mode(BitOr(64, DevTemp(EQ3BT_ON_TEMP)), <<>>)
    ELSE IF mode = "Manual"
         THEN set_mode(BitOr(64, DevTemp(Max(Min(m.target_temperature, EQ3BT_MAX_TEMP),
                                             EQ3BT_MIN_TEMP))), <<>>)
    ELSE set_mode(0, <<>>)

MirrorAfterCommandOptimistic(m, op, arg) ==
    IF op = "target_temperature" THEN [m EXCEPT !.target_temperature = arg[1]]
    ELSE IF op = "mode" THEN [m EXCEPT !.mode = arg[1]]
    ELSE IF op = "set_away" THEN [m EXCEPT !.away_end = arg[1]]
    ELSE m

\* the mirror after a command operation built and wrote its payload: no
\* command method assigns a field of the mirror
MirrorAfterCommand(m, op, arg) == m

----------------------------------------------------------------------------
(* The notifications the link may deliver: a bounded alphabet *)

\* the longest tail of stray bytes after the temperature byte of a status
MaxShortTail == 3

\* how many valve readings (0, 22, 44, ...) the statuses carry
MaxValves == 2

StatusMsg(flags, valve, temp, tail) ==
    <<PROP_INFO_RETURN, 1, flags, valve, 4, temp>> \o tail

\* flag bytes with AWAY clear: auto, manual, boost, manual+boost,
\* manual+window+locked+low battery
PlainFlags == {0, 1, 4, 5, 177}
\* flag bytes with AWAY set: away, manual+away, away+boost, all three
AwayFlags == {2, 3, 6, 7}
\* 4.5, 20.0 and 30.0 C
TempBytes == {9, 40, 60}
ValveBytes == {22 * i : i \in 0..(MaxValves - 1)}

Pad == <<0, 0, 0, 0>>
PresetsA == <<24, 3, 40, 34, 7>>
PresetsB == <<20, 12, 44, 30, 0>>
\* 2019-03-29 23:00 and 2020-01-01 08:30
AwayA == <<29, 19, 46, 3>>
AwayB == <<1, 20, 17, 1>>
\* 31 February, hour 24, month 0
BadAways == {<<31, 19, 46, 2>>, <<29, 19, 48, 3>>, <<29, 19, 46, 0>>}

ShortTails == {[i \in 1..n |-> 7] : n \in 1..MaxShortTail}

PlainStatuses ==
    {StatusMsg(f, 0, t, <<>>) : f \in PlainFlags, t \in TempBytes}

TailStatuses ==
    {StatusMsg(0, v, 40, tail) :
        v \in ValveBytes,
        tail \in ShortTails \cup {Pad, Pad \o PresetsA, Pad \o PresetsB, PresetsA}}

AwayStatuses ==
    {StatusMsg(f, 0, 35, a) : f \in AwayFlags, a \in {AwayA, AwayB}}
    \cup {StatusMsg(2, 0, 35, AwayA \o PresetsA)}

\* statuses Status.parse rejects, and payloads too short to index
BadStatuses ==
    {<<2>>, <<2, 1>>, <<2, 1, 0, 0>>, <<2, 1, 0, 0, 4>>, <<2, 1, 1, 0, 5, 40>>,
     <<2, 1, 1, 0, 5>>}
    \cup {StatusMsg(f, 0, 35, a) : f \in {2, 6}, a \in {<<>>, <<29, 19>>}}
    \cup {StatusMsg(2, 0, 35, a) : a \in BadAways}

SchedA0 == <<33, 0, 34, 36, 42, 132, 34, 144>>
Schedules == {SchedA0}
BadSchedules == {<<33>>, <<33, 0, 34>>, <<33, 0, 34, 150>>}

IdA == <<1, 120, 0, 0, 128, 117, 129, 98, 97, 99, 96, 96, 103, 101, 158>>
DeviceIds == {IdA}
BadDeviceIds == {<<1>>, <<1, 120, 0, 0, 128>>, Take(IdA, 14),
                 <<1, 120, 0, 0, 128, 117, 129, 98, 97, 99, 96, 96, 103, 47, 0>>}

\* leading tags handle_notification does not know, a status-tagged payload
\* whose second byte is not 1, and the empty payload
OtherTags == {<<0>>, <<3, 19, 3, 29>>, <<69, 1>>, <<16, 0, 34, 144>>,
              <<2, 2, 0, 0, 4, 40>>}

Notifications ==
    PlainStatuses \cup TailStatuses \cup AwayStatuses \cup BadStatuses
    \cup Schedules \cup BadSchedules \cup DeviceIds \cup BadDeviceIds
    \cup OtherTags \cup {<<>>}

----------------------------------------------------------------------------
(* The state machine *)

NoCall == [op |-> "none", arg |-> <<>>]

\* no connection object looked at, no adapter applied
NoLink == [backend |-> "none"]
NoCodec == [fn |-> "none"]

Init ==
    /\ link = NoLink
    /\ codec = NoCodec
    /\ mirror = InitMirror
    /\ prev = InitMirror
    /\ notif = None
    /\ raised = "none"
    /\ call = NoCall
    /\ writes = <<>>
    /\ pc = "idle"
    /\ pend = None

\* the link calls the notification callback with payload d
Notify(d) ==
    /\ pc = "idle"
    /\ prev' = mirror
    /\ LET h == handle_notification(mirror, d)
       IN  mirror' = h.mirror /\ raised' = h.raised
    /\ notif' = Some(d)
    /\ writes' = writes \o NotificationWrites(mirror, d)
    /\ UNCHANGED <<call, pc, pend, link, codec>>

Next == \E d \in Notifications : Notify(d)

Spec == Init /\ [][Next]_vars

----------------------------------------------------------------------------
(* The command operations over the link.  make_request writes the payload  *)
(* and waits: the link delivers one notification to the callback, or the   *)
(* wait times out.                                                         *)

\* the replies of the device the link delivers during a request
Replies ==
    {StatusMsg(1, 0, t, <<>>) : t \in TempBytes}
    \cup {StatusMsg(0, 0, 40, <<>>), StatusMsg(4, 0, 40, <<>>),
          StatusMsg(2, 0, 35, AwayA), <<2, 1, 0, 0>>, <<69, 1>>}

\* the clock: datetime.now(), and datetime.now() + 30 days
Nows == {[year |-> 2019, month |-> 2, day |-> 27, hour |-> 23, minute |-> 0,
          second |-> 59],
         [year |-> 2024, month |-> 1, day |-> 30, hour |-> 7, minute |-> 45,
          second |-> 0]}
Ends == {[year |-> 2019, month |-> 3, day |-> 29, hour |-> 23, minute |-> 0],
         [year |-> 2024, month |-> 2, day |-> 29, hour |-> 7, minute |-> 45]}

\* the arguments the caller passes
\* every half degree from 5.0 to 29.5 C, the two sentinels, values between
\* the steps and values out of range
TempArgs == {2 * i : i \in 10..59} \cup {18, 120} \cup {-2, 16, 19, 21, 119, 122, 140}
FewTemps == {18, 84, 122}
DayArgs == {-1, 0, 6, 7, 256}
AwayArgs == {None} \cup {Some(e) : e \in Ends}
               \cup {Some([year |-> 2100, month |-> 1, day |-> 1, hour |-> 0,
                           minute |-> 0])}
\* the clock matters to the mode setter only on the way to Away
EndsFor(mode) == IF mode = "Away" THEN Ends ELSE {CHOOSE e \in Ends : TRUE}
AwayTemps == {-2, 48, 140}
SecondsArgs == {900, 3900, 77000}
OffsetArgs == {-16, -15, -14, -1, 0, 14, 15, 16}

\* a command method runs up to its make_request: it raises, or its payload
\* is written and the caller waits
Issue(op, arg, res, then) ==
    /\ UNCHANGED <<link, codec>>
    /\ call' = [op |-> op, arg |-> arg]
    /\ prev' = mirror
    /\ notif' = None
    /\ raised' = res.err
    /\ IF res.err # "none"
       THEN /\ writes' = <<>>
            /\ pc' = "idle"
            /\ pend' = None
            /\ mirror' = mirror
       ELSE /\ writes' = <<res.payload>>
            /\ pc' = "wait"
            /\ pend' = then
            /\ mirror' = MirrorAfterCommand(mirror, op, arg)

QueryId ==
    /\ pc = "idle"
    /\ Issue("query_id", <<>>, query_id, None)

Update ==
    /\ pc = "idle"
    /\ \E now \in Nows : Issue("update", <<now>>, update(now), None)

QuerySchedule ==
    /\ pc = "idle"
    /\ \E day \in DayArgs : Issue("query_schedule", <<day>>, query_schedule(day), None)

SetTargetTemperature ==
    /\ pc = "idle"
    /\ \E t \in TempArgs :
        Issue("target_temperature", <<t>>, target_temperature_setter(t), None)

\* the mode setter: boost off first when the mirror is in Boost, the write
\* for the new mode after that request returned
SetMode ==
    /\ pc = "idle"
    /\ \E mode \in Modes : \E end \in EndsFor(mode) :
        IF mode_setter_leaves_boost(mirror, mode)
        THEN Issue("mode", <<mode>>, boost_setter(FALSE), Some(mode))
        ELSE Issue("mode", <<mode>>, mode_setter_write(mirror, mode, end), None)

SetModeResume ==
    /\ pc = "resume"
    /\ \E end \in EndsFor(pend[1]) :
        LET res == mode_setter_write(mirror, pend[1], end)
        IN  /\ raised' = res.err
            /\ IF res.err # "none"
               THEN writes' = writes /\ pc' = "idle"
               ELSE writes' = Append(writes, res.payload) /\ pc' = "wait"
    /\ pend' = None
    /\ mirror' = MirrorAfterCommand(mirror, call.op, call.arg)
    /\ UNCHANGED <<prev, notif, call, link, codec>>

SetAway ==
    /\ pc = "idle"
    /\ \E end \in AwayArgs, t \in AwayTemps :
        Issue("set_away", <<end, t>>, set_away(end, t), None)

SetBoost ==
    /\ pc = "idle"
    /\ \E b \in BOOLEAN : Issue("boost", <<b>>, boost_setter(b), None)

SetLocked ==
    /\ pc = "idle"
    /\ \E b \in BOOLEAN : Issue("locked", <<b>>, locked_setter(b), None)

WindowOpenConfig ==
    /\ pc = "idle"
    /\ \E t \in FewTemps, sec \in SecondsArgs :
        Issue("window_open_config", <<t, sec>>, window_open_config(t, sec), None)

TemperaturePresets ==
    /\ pc = "idle"
    /\ \E c \in FewTemps, e \in FewTemps :
        Issue("temperature_presets", <<c, e>>, temperature_presets(c, e), None)

SetTemperatureOffset ==
    /\ pc = "idle"
    /\ \E o \in OffsetArgs :
        Issue("temperature_offset", <<o>>, temperature_offset_setter(o), None)

ActivateComfort ==
    /\ pc = "idle"
    /\ Issue("activate_comfort", <<>>, activate_comfort, None)

ActivateEco ==
    /\ pc = "idle"
    /\ Issue("activate_eco", <<>>, activate_eco, None)

\* make_request returns to the command method, which returns or goes on
Returned == IF pend = None THEN "idle" ELSE "resume"

\* waitForNotifications hands one notification to the callback; what the
\* callback raises leaves make_request and the command method
Deliver(d) ==
    /\ pc = "wait"
    /\ notif' = Some(d)
    /\ LET h == handle_notification(mirror, d)
       IN  /\ mirror' = h.mirror
           /\ raised' = h.raised
           /\ pc' = IF h.raised # "none" THEN "idle" ELSE Returned
           /\ pend' = IF h.raised # "none" THEN None ELSE pend
    /\ writes' = writes \o NotificationWrites(mirror, d)
    /\ UNCHANGED <<prev, call, link, codec>>

\* no notification within the timeout
Timeout ==
    /\ pc = "wait"
    /\ pc' = Returned
    /\ UNCHANGED <<mirror, prev, notif, raised, call, writes, pend, link, codec>>

NextCmd ==
    \/ QueryId
    \/ Update
    \/ QuerySchedule
    \/ SetTargetTemperature
    \/ SetMode
    \/ SetModeResume
    \/ SetAway
    \/ SetBoost
    \/ SetLocked
    \/ WindowOpenConfig
    \/ TemperaturePresets
    \/ SetTemperatureOffset
    \/ ActivateComfort
    \/ ActivateEco
    \/ \E d \in Replies : Deliver(d)
    \/ Timeout

SpecCmd == Init /\ [][NextCmd]_vars

----------------------------------------------------------------------------
(* What the claims speak of, read off the wire layout *)

Data == notif[1]
Handled == notif # None

\* a status payload that parses: both opening constants, the constant 0x04,
\* the temperature byte and, with AWAY set, four away bytes that are a date
WellFormedStatus(d) ==
    /\ Len(d) >= 6
    /\ d[1] = 2 /\ d[2] = 1 /\ d[5] = 4
    /\ Flag(d[3], AWAY) =>
        /\ Len(d) >= 10
        /\ d[10] \in 1..12
        /\ d[7] \in 1..DaysInMonth(2000 + d[8], d[10])
        /\ d[9] < 48

\* the presets block is the five bytes after the four away (or padding) bytes
HasPresetsBlock(d) == Len(d) >= 15

Presets(m) ==
    <<m.window_open_temperature, m.window_open_time, m.comfort_temperature,
      m.eco_temperature, m.temperature_offset>>

KnownTag(d) == Len(d) >= 1 /\ d[1] \in {1, 2, 33}

\* a known tag on a payload shorter than its record's fixed part, or with a
\* constant byte that does not match
ShortOrBadConst(d) ==
    /\ KnownTag(d)
    /\ \/ d[1] = 2 /\ (Len(d) < 6 \/ d[2] # 1 \/ d[5] # 4)
       \/ d[1] = 33 /\ Len(d) < 4
       \/ d[1] = 1 /\ Len(d) < 15

\* a payload that handle_notification takes for a record of a known tag and
\* that the record's parser rejects
Unparsable(d) ==
    /\ KnownTag(d)
    /\ \/ d[1] = 2 /\ Len(d) = 1
       \/ d[1] = 2 /\ Len(d) >= 2 /\ d[2] = 1
            /\ (Len(d) < 6 \/ d[5] # 4 \/ (Flag(d[3], AWAY) /\ Len(d) < 10))
       \/ d[1] = 33 /\ Len(d) < 4
       \/ d[1] = 1 /\ Len(d) < 15

----------------------------------------------------------------------------
(* C1: after handle_notification applied a well-formed status, the mode is *)
(* decided by that status alone: BOOST -> Boost; else AWAY -> Away; else   *)
(* MANUAL -> Closed at 4.5 C (byte 9), Open at 30.0 C (byte 60), Manual    *)
(* otherwise; else Auto.                                                   *)
C1_ModePrecedence ==
    (Handled /\ WellFormedStatus(Data)) =>
        mirror.mode =
            IF Flag(Data[3], 4) THEN "Boost"
            ELSE IF Flag(Data[3], 2) THEN "Away"
            ELSE IF Flag(Data[3], 1)
                 THEN (IF Data[6] = 9 THEN "Closed"
                       ELSE IF Data[6] = 60 THEN "Open" ELSE "Manual")
            ELSE "Auto"

\* a MANUAL+AWAY status handled while the mirror was in Boost gives Away
C1_Witness ==
    /\ notif = Some(StatusMsg(3, 0, 35, AwayA))
    /\ prev.mode = "Boost"
    /\ mirror.mode = "Away"

(* C5: a notification whose leading tag is none of 0x02, 0x21, 0x01 leaves *)
(* every field of the mirror unchanged and raises no error.                *)
C5_UnknownTagIgnored ==
    (Handled /\ Len(Data) >= 1 /\ Data[1] \notin {2, 33, 1}) =>
        (mirror = prev /\ raised = "none")

\* an unknown tag handled by a mirror that holds a status, presets, an away
\* end, a schedule and a device id
C5_Witness ==
    /\ notif = Some(<<69, 1>>)
    /\ mirror = prev
    /\ raised = "none"
    /\ mirror.mode = "Away"
    /\ mirror.away_end # None
    /\ mirror.comfort_temperature # None
    /\ DOMAIN mirror.schedule # {}
    /\ mirror.device_serial # None

(* C6, as stated: a status without a presets block leaves the five preset  *)
(* fields as they were before it.                                          *)
C6_PresetsKept ==
    (Handled /\ WellFormedStatus(Data) /\ ~HasPresetsBlock(Data)) =>
        Presets(mirror) = Presets(prev)

(* C6, amended: a status without a presets block sets the five preset      *)
(* fields to None, whatever they were; one with a presets block sets all   *)
(* five.                                                                   *)
C6_PresetsCleared ==
    (Handled /\ WellFormedStatus(Data)) =>
        IF HasPresetsBlock(Data)
        THEN \A i \in 1..5 : Presets(mirror)[i] # None
        ELSE \A i \in 1..5 : Presets(mirror)[i] = None

\* presets learned from an earlier status are gone after a 6-byte status
C6_Witness ==
    /\ notif = Some(StatusMsg(0, 0, 40, <<>>))
    /\ \A i \in 1..5 : Presets(prev)[i] # None
    /\ \A i \in 1..5 : Presets(mirror)[i] = None

(* C7, as stated: a status with AWAY set and BOOST clear and no away bytes *)
(* sets the mode to Away and leaves away_end as it was; with the away      *)
(* bytes present away_end becomes the decoded period.                      *)
C7_AwayWithoutPeriod ==
    (Handled /\ Len(Data) >= 6 /\ Data[1] = 2 /\ Data[2] = 1 /\ Data[5] = 4
        /\ Flag(Data[3], 2) /\ ~Flag(Data[3], 4)) =>
        IF Len(Data) < 10
        THEN mirror.mode = "Away" /\ mirror.away_end = prev.away_end
        ELSE WellFormedStatus(Data) =>
                mirror.away_end =
                    Some([year |-> 2000 + Data[8], month |-> Data[10],
                          day |-> Data[7], hour |-> Data[9] \div 2,
                          minute |-> 30 * (Data[9] % 2)])

(* C7, amended: a status with AWAY set and BOOST clear whose four away     *)
(* bytes are present and a date sets the mode to Away and away_end to the  *)
(* decoded period; with AWAY set and fewer than four away bytes the status *)
(* does not parse: handle_notification raises and the whole mirror, mode   *)
(* and away_end included, stays as it was.                                 *)
C7_AwayEnd ==
    (Handled /\ Len(Data) >= 6 /\ Data[1] = 2 /\ Data[2] = 1 /\ Data[5] = 4
        /\ Flag(Data[3], 2)) =>
        IF Len(Data) < 10
        THEN raised # "none" /\ mirror = prev
        ELSE (WellFormedStatus(Data) /\ ~Flag(Data[3], 4)) =>
                /\ mirror.mode = "Away"
                /\ mirror.away_end =
                    Some([year |-> 2000 + Data[8], month |-> Data[10],
                          day |-> Data[7], hour |-> Data[9] \div 2,
                          minute |-> 30 * (Data[9] % 2)])

\* an AWAY status without away bytes handled in Auto with an away end
\* stored: it raises and the mode stays Auto
C7_Witness ==
    /\ notif = Some(StatusMsg(2, 0, 35, <<>>))
    /\ prev.away_end # None
    /\ prev.mode = "Auto"
    /\ mirror.mode = "Auto"
    /\ raised = "StreamError"

(* C8: a notification with a known tag that is shorter than its record's   *)
(* fixed part, or whose constant bytes do not match, leaves every field of *)
(* the mirror as it was.                                                   *)
C8_MalformedLeavesMirror ==
    (Handled /\ ShortOrBadConst(Data)) => mirror = prev

\* a status whose constant 0x04 is wrong, handled by a mirror that holds a
\* status of another mode and temperature
C8_Witness ==
    /\ notif = Some(<<2, 1, 1, 0, 5, 40>>)
    /\ mirror = prev
    /\ mirror.mode = "Boost"
    /\ mirror.target_temperature = TempDecode(9)

(* C9, as stated: a malformed notification is dropped and                  *)
(* handle_notification returns normally.                                   *)
C9_RecoveredLocally ==
    (Handled /\ Unparsable(Data)) => (raised = "none" /\ mirror = prev)

(* C9, amended: a notification that handle_notification takes for a record *)
(* of a known tag and that does not parse is not recovered locally: the    *)
(* parser's exception leaves handle_notification, with the mirror as it    *)
(* was; handle_notification keeps nothing of the failure, so the next      *)
(* notification is processed as usual.                                     *)
C9_ErrorPropagates ==
    /\ [](Handled /\ Unparsable(Data) => raised # "none" /\ mirror = prev)
    /\ [][(raised # "none" /\ notif' = Some(StatusMsg(1, 0, 40, <<>>)))
            => (raised' = "none" /\ mirror'.mode = "Manual"
                /\ mirror'.target_temperature = 80)]_vars

\* a device id one byte short raised while the mirror held a status
C9_Witness ==
    /\ notif = Some(Take(IdA, 14))
    /\ raised = "StreamError"
    /\ mirror = prev
    /\ mirror.mode = "Manual"

----------------------------------------------------------------------------
(* The claims about the command operations, under SpecCmd *)

\* the mode setter was called with mode while the mirror was in Boost
ModeCallFromBoost(mode) ==
    call.op = "mode" /\ call.arg[1] = mode /\ prev.mode = "Boost"

\* the one mode write [0x40, ...] of a target mode
ModeWriteOf(mode, w) ==
    /\ w[1] = 64
    /\ IF mode = "Auto" THEN w = <<64, 0>>
       ELSE IF mode = "Closed" THEN w = <<64, 73>>
       ELSE IF mode = "Open" THEN w = <<64, 124>>
       ELSE IF mode = "Manual" THEN Len(w) = 2 /\ w[2] \in 74..123
       ELSE Len(w) = 6 /\ w[2] = 152

(* C2: the mode setter called with Manual, Auto, Away, Closed or Open      *)
(* while the mirror is in Boost writes boost-off [0x45, 0x00] first and    *)
(* then, as a second payload, the one mode write of the target mode; when  *)
(* it has returned it has written exactly these two.                       *)
C2_BoostOffThenModeWrite ==
    \A mode \in {"Manual", "Auto", "Away", "Closed", "Open"} :
        ModeCallFromBoost(mode) =>
            /\ Len(writes) \in {1, 2}
            /\ writes[1] = <<69, 0>>
            /\ Len(writes) = 2 => ModeWriteOf(mode, writes[2])
            /\ (pc = "idle" /\ raised = "none") => Len(writes) = 2

\* Manual set in Boost, the device answering boost-off with a status at 20 C
C2_Witness ==
    /\ ModeCallFromBoost("Manual")
    /\ pc = "idle"
    /\ raised = "none"
    /\ writes = <<<<69, 0>>, <<64, 104>>>>

(* C3: the mode setter called with Boost, from any mode of the mirror,     *)
(* writes the one payload [0x45, 0x01] and no mode write.                  *)
C3_BoostOnOnly ==
    (call.op = "mode" /\ call.arg[1] = "Boost") => writes = <<<<69, 1>>>>

\* Boost set while the mirror already is in Boost, the call returned
C3_Witness ==
    /\ ModeCallFromBoost("Boost")
    /\ pc = "idle"
    /\ writes = <<<<69, 1>>>>

(* C4: as long as the link has delivered no notification during a command  *)
(* operation, the mirror is what it was when the operation was called: a   *)
(* command changes no field, only handle_notification does.                *)
C4_NoSpeculativeUpdate ==
    (call.op # "none" /\ notif = None) => mirror = prev

\* a target temperature written and timed out, the mirror still holding the
\* status it held, with another target temperature
C4_Witness ==
    /\ call.op = "target_temperature"
    /\ Len(writes) = 1
    /\ pc = "idle"
    /\ notif = None
    /\ mirror = prev
    /\ mirror.mode = "Manual"
    /\ mirror.target_temperature # call.arg[1]

(* C10: setting the target temperature to t writes one payload: [0x41, 2t] *)
(* for t from 5.0 to 29.5 C in steps of 0.5, [0x40, 0x49] for 4.5 C and    *)
(* [0x40, 0x7C] for 30.0 C.                                                *)
C10_TargetTemperaturePayload ==
    call.op = "target_temperature" =>
        LET t == call.arg[1]
        IN  /\ t = 18 => writes = <<<<64, 73>>>>
            /\ t = 120 => writes = <<<<64, 124>>>>
            /\ (t \in 20..118 /\ t % 2 = 0) => writes = <<<<65, t \div 2>>>>

\* the open sentinel written as a mode write, and the request returned
C10_Witness ==
    /\ call = [op |-> "target_temperature", arg |-> <<120>>]
    /\ writes = <<<<64, 124>>>>
    /\ pc = "idle"

(* C11: a target temperature other than the sentinels 4.5 and 30.0 C, a     *)
(* comfort or eco preset, or a window-open temperature below 5.0 C or above *)
(* 29.5 C raises TemperatureException and nothing is written to the link;  *)
(* for temperature_presets one of the two out of range is enough.          *)
OutOfRange(t) == t < 20 \/ t > 118

C11_TemperatureRejected ==
    LET rejected == raised = "TemperatureException" /\ writes = <<>> /\ pc = "idle"
    IN  /\ (call.op = "target_temperature" /\ call.arg[1] \notin {18, 120}
                /\ OutOfRange(call.arg[1])) => rejected
        /\ (call.op = "temperature_presets"
                /\ (OutOfRange(call.arg[1]) \/ OutOfRange(call.arg[2]))) => rejected
        /\ (call.op = "window_open_config" /\ OutOfRange(call.arg[1])) => rejected

\* a valid comfort temperature with an eco temperature of 30.5 C
C11_Witness ==
    /\ call = [op |-> "temperature_presets", arg |-> <<84, 122>>]
    /\ raised = "TemperatureException"
    /\ writes = <<>>

(* C12: a temperature offset below -3.5 or above 3.5 raises an error and   *)
(* no payload is written to the link.                                      *)
C12_OffsetRejected ==
    (call.op = "temperature_offset" /\ (call.arg[1] < -14 \/ call.arg[1] > 14)) =>
        (raised = "TemperatureException" /\ writes = <<>> /\ pc = "idle")

\* an offset of 4.0 C
C12_Witness ==
    /\ call = [op |-> "temperature_offset", arg |-> <<16>>]
    /\ raised = "TemperatureException"
    /\ writes = <<>>

(* C13: query_schedule(day) with day outside 0..6 is a caller error that   *)
(* is surfaced, with no payload written to the link; for day in 0..6 the   *)
(* one payload [0x20, day] is written.                                     *)
C13_QueryScheduleDay ==
    call.op = "query_schedule" =>
        IF call.arg[1] \in 0..6
        THEN writes = <<<<32, call.arg[1]>>>>
        ELSE raised # "none" /\ writes = <<>>

(* C14: window_open_config with a duration outside 0..3600 seconds is an   *)
(* error and writes nothing to the link; with a duration inside it and a   *)
(* temperature from 5.0 to 29.5 C it writes the one payload                *)
(* [0x14, 2 * temperature, seconds / 300].                                 *)
C14_WindowOpenDuration ==
    call.op = "window_open_config" =>
        LET t == call.arg[1]
            sec == call.arg[2]
        IN  /\ sec \notin 0..3600 => (raised # "none" /\ writes = <<>>)
            /\ (sec \in 0..3600 /\ ~OutOfRange(t) /\ t % 2 = 0) =>
                    writes = <<<<20, t \div 2, sec \div 300>>>>

(* C15: set_away(end, t) with an end time (year 2000 to 2099) writes the   *)
(* one 6-byte payload [0x40, 0x80 | 2t, day, year - 2000, (hour * 2) | (1  *)
(* if minute # 0 else 0), month]; set_away without an end time writes the  *)
(* auto mode write [0x40, 0x00].                                           *)
C15_SetAwayPayload ==
    call.op = "set_away" =>
        LET end == call.arg[1]
            t == call.arg[2]
        IN  /\ end = None => writes = <<<<64, 0>>>>
            /\ (end # None /\ end[1].year \in 2000..2099
                    /\ t % 2 = 0 /\ t \div 2 \in 0..255) =>
                    writes = <<<<64,
                                IF t \div 2 < 128 THEN 128 + t \div 2 ELSE t \div 2,
                                end[1].day, end[1].year - 2000,
                                end[1].hour * 2 + (IF end[1].minute # 0 THEN 1 ELSE 0),
                                end[1].month>>>>

\* away until 2024-02-29 07:45 at 12.0 C: the minute 45 sets the half-hour bit
C15_Witness ==
    /\ call.op = "set_away"
    /\ call.arg[2] = 48
    /\ writes = <<<<64, 152, 29, 24, 15, 2>>>>
    /\ pc = "idle"

----------------------------------------------------------------------------
(* More claims about handle_notification, under Spec *)

(* C16: after a well-formed status the mirror holds the payload's values   *)
(* as they are: valve_state is the valve byte, target_temperature is the   *)
(* temperature byte / 2 (the sentinels 4.5 and 30.0 C included), locked,   *)
(* low_battery and window_open are bits 0x20, 0x80 and 0x10 of the flags   *)
(* byte and boost is bit 0x04, whatever the derived mode and whatever the  *)
(* mirror held before.                                                     *)
C16_StatusVerbatim ==
    (Handled /\ WellFormedStatus(Data)) =>
        /\ mirror.valve_state = Data[4]
        /\ mirror.target_temperature = 2 * Data[6]
        /\ locked_getter(mirror) = Some((Data[3] \div 32) % 2 = 1)
        /\ low_battery_getter(mirror) = Some((Data[3] \div 128) % 2 = 1)
        /\ window_open_getter(mirror) = Some((Data[3] \div 16) % 2 = 1)
        /\ boost_getter(mirror) = ((Data[3] \div 4) % 2 = 1)

\* a manual status at 4.5 C with window, lock and low battery set, handled
\* by a mirror in Boost at another temperature
C16_Witness ==
    /\ notif = Some(StatusMsg(177, 0, 9, <<>>))
    /\ prev.mode = "Boost"
    /\ prev.target_temperature = 80
    /\ mirror.mode = "Closed"
    /\ mirror.target_temperature = 18
    /\ locked_getter(mirror) = Some(TRUE)
    /\ ~boost_getter(mirror)

(* C17: a status with AWAY clear, 4 padding bytes and a 5-byte presets     *)
(* block sets all five preset fields to the decoded values: window-open    *)
(* temperature byte / 2, window-open time byte * 5 minutes, comfort        *)
(* byte / 2, eco byte / 2, offset (byte - 7) / 2.                          *)
C17_PresetsDecoded ==
    (Handled /\ WellFormedStatus(Data) /\ ~Flag(Data[3], 2) /\ Len(Data) >= 15) =>
        /\ mirror.window_open_temperature = Some(2 * Data[11])
        /\ mirror.window_open_time = Some(5 * Data[12])
        /\ mirror.comfort_temperature = Some(2 * Data[13])
        /\ mirror.eco_temperature = Some(2 * Data[14])
        /\ mirror.temperature_offset = Some(2 * (Data[15] - 7))

\* the presets 12.0 C, 15 minutes, 20.0 C, 17.0 C and offset 0.0 replace
\* other presets learned earlier
C17_Witness ==
    /\ notif = Some(StatusMsg(0, 0, 40, Pad \o PresetsA))
    /\ prev.comfort_temperature = Some(88)
    /\ Presets(mirror) = <<Some(48), Some(15), Some(80), Some(68), Some(0)>>

(* C18: a status with AWAY clear is accepted without error whether 0, 1,   *)
(* 2, 3 or 4 bytes follow the temperature byte, and each time it gives the *)
(* flags, valve and target temperature of its header and no presets.       *)
C18_ShortTailAccepted ==
    (Handled /\ Len(Data) \in 6..10 /\ Data[1] = 2 /\ Data[2] = 1 /\ Data[5] = 4
        /\ ~Flag(Data[3], 2)) =>
        /\ raised = "none"
        /\ mirror.raw_mode = Some(Data[3])
        /\ mirror.valve_state = Data[4]
        /\ mirror.target_temperature = 2 * Data[6]
        /\ \A i \in 1..5 : Presets(mirror)[i] = None

\* two stray bytes after the temperature byte, handled by a mirror that
\* held another valve reading
C18_Witness ==
    /\ notif = Some(StatusMsg(0, 22, 40, <<7, 7>>))
    /\ prev.valve_state = 0
    /\ raised = "none"
    /\ mirror.valve_state = 22
    /\ mirror.mode = "Auto"

----------------------------------------------------------------------------
(* The records the mirror collects: schedules of several days and device   *)
(* ids, between statuses.  The same callback over another alphabet.        *)

\* day 0 again with another programme, and day 1
SchedB0 == <<33, 0, 40, 144>>
SchedC1 == <<33, 1, 36, 42, 44, 120, 36, 144, 0, 0>>
IdB == <<1, 121, 0, 0, 127, 117, 129, 96, 96, 97, 98, 99, 100, 105, 0>>

RecordNotifications ==
    {SchedA0, SchedB0, SchedC1, IdA, IdB}
    \cup {StatusMsg(1, 0, 40, <<>>), StatusMsg(2, 22, 35, AwayA \o PresetsA)}
    \cup {<<33, 0, 34>>, <<33, 1, 34, 150>>, Take(IdB, 14), <<69, 1>>}

NextRecords == \E d \in RecordNotifications : Notify(d)

SpecRecords == Init /\ [][NextRecords]_vars

\* a device id payload that parses: tag, version, two bytes, ten serial
\* bytes that are characters shifted by 0x30, one more byte
WellFormedId(d) ==
    /\ Len(d) >= 15
    /\ d[1] = 1
    /\ \A i \in 5..14 : d[i] \in 48..175

\* a schedule payload all of whose time bytes are times of day up to 24:00
WellFormedSchedule(d) ==
    /\ Len(d) >= 4
    /\ Len(d) % 2 = 0
    /\ d[1] = 33
    /\ \A k \in 2..(Len(d) \div 2) : d[2 * k] < 150

\* a time byte counts 10 minutes; 24:00 is kept as the placeholder
ClockOf(b) == IF b \div 6 = 24 THEN <<1234>> ELSE <<b \div 6, 10 * (b % 6)>>

\* the mirror but for the named fields
Except(m, fields) == [f \in (DOMAIN m) \ fields |-> m[f]]

(* C19: after a well-formed device id notification firmware_version is     *)
(* byte 1 of the payload and character i of device_serial is byte 4 + i    *)
(* minus 0x30 for i in 0..9 (counting from 0), whatever they were before;  *)
(* every other field of the mirror is unchanged.                           *)
C19_DeviceIdStored ==
    (Handled /\ WellFormedId(Data)) =>
        /\ raised = "none"
        /\ mirror.firmware_version = Some(Data[2])
        /\ mirror.device_serial = Some([i \in 1..10 |-> Data[4 + i] - 48])
        /\ Except(mirror, {"firmware_version", "device_serial"})
                = Except(prev, {"firmware_version", "device_serial"})

\* the id of the tests (version 120, serial PEQ2130075) replaces an earlier
\* id in a mirror that holds a status and a schedule
C19_Witness ==
    /\ notif = Some(IdA)
    /\ prev.firmware_version = Some(121)
    /\ mirror.firmware_version = Some(120)
    /\ mirror.device_serial = Some(<<80, 69, 81, 50, 49, 51, 48, 48, 55, 53>>)
    /\ mirror.mode = "Away"
    /\ DOMAIN mirror.schedule = {0, 1}

\* the entry a schedule notification leaves, and what it leaves alone
ScheduleEntryStored ==
    (Handled /\ WellFormedSchedule(Data)) =>
        LET d == Data[2]
            n == (Len(Data) - 4) \div 2
        IN  /\ raised = "none"
            /\ DOMAIN mirror.schedule = (DOMAIN prev.schedule) \cup {d}
            /\ mirror.schedule[d].day = d
            /\ mirror.schedule[d].base_temp = 2 * Data[3]
            /\ mirror.schedule[d].next_change_at = ClockOf(Data[4])
            /\ Len(mirror.schedule[d].hours) = n
            /\ \A k \in 1..n :
                    /\ mirror.schedule[d].hours[k].target_temp = 2 * Data[3 + 2 * k]
                    /\ mirror.schedule[d].hours[k].next_change_at
                            = ClockOf(Data[4 + 2 * k])
            /\ \A e \in (DOMAIN prev.schedule) \ {d} :
                    mirror.schedule[e] = prev.schedule[e]
            /\ Except(mirror, {"schedule"}) = Except(prev, {"schedule"})

\* an entry of the map changes only by a schedule notification for its day
ScheduleEntryKept ==
    \A e \in DOMAIN mirror.schedule :
        (e \notin DOMAIN mirror'.schedule \/ mirror'.schedule[e] # mirror.schedule[e])
            => (notif' # None /\ WellFormedSchedule(notif'[1]) /\ notif'[1][2] = e)

(* C20: after a schedule notification for day d the schedule map's entry   *)
(* for d is the decoded record, in place of an earlier entry for d; the    *)
(* entries of the other days and every other field of the mirror are       *)
(* unchanged.  An entry changes by nothing but a schedule notification for *)
(* its day, so the map holds per day the record received last.             *)
C20_ScheduleEntry == []ScheduleEntryStored /\ [][ScheduleEntryKept]_vars

\* day 0 received a second time while day 1 is held: the entry of day 0 is
\* the new record, the entry of day 1 stays
C20_Witness ==
    /\ notif = Some(SchedB0)
    /\ DOMAIN prev.schedule = {0, 1}
    /\ prev.schedule[0].base_temp = 68
    /\ mirror.schedule[0].base_temp = 80
    /\ mirror.schedule[0].next_change_at = <<1234>>
    /\ mirror.schedule[0].hours = <<>>
    /\ mirror.schedule[1] = prev.schedule[1]
    /\ mirror.schedule[1].hours[1].next_change_at = <<20, 0>>

----------------------------------------------------------------------------
(* C21: handling a notification of any kind (status, schedule, device id,  *)
(* unknown, or one that does not parse) writes nothing to the link: under  *)
(* the callback alone no payload is ever written.                          *)
C21_HandlerWritesNothing == Handled => writes = <<>>

\* an unknown notification after a status, a schedule and a device id were
\* handled
C21_Witness ==
    /\ notif = Some(<<3, 19, 3, 29>>)
    /\ mirror.mode = "Boost"
    /\ DOMAIN mirror.schedule # {}
    /\ mirror.device_serial # None
    /\ writes = <<>>

----------------------------------------------------------------------------
(* The link: the connection objects behind make_request.  Three backends   *)
(* of eq3bt (connection.py on bluepy, gattlibconnection.py,                *)
(* bleakconnection.py) and the link of the older driver                    *)
(* (bluepy_devices/lib/connection.py, "legacy").  A request is followed    *)
(* step by step: __enter__ with its connection attempts, the write, the    *)
(* wait for a notification, __exit__.  Each attempt, write and wait ends   *)
(* as the radio decides: "ok", the backend's own exception ("backend") or  *)
(* any other exception ("other").                                          *)

DEFAULT_TIMEOUT == 1

\* how many hci interfaces get_hci_ifaces may find
MaxIfaces == 2

\* how many times in a row the radio may fail the write of one request
MaxRewrites == 2

Backends == {"bluepy", "gattlib", "bleak", "legacy"}
Eq3btBackends == {"bluepy", "gattlib", "bleak"}
Outcomes == {"ok", "backend", "other"}

\* the exception class a backend's library raises, the one its except
\* clauses name
BackendExc(b) ==
    IF b \in {"bluepy", "legacy"} THEN "BTLEException"
    ELSE IF b = "gattlib" THEN "BTBaseException" ELSE "BleakError"

ExcOf(b, outcome) == IF outcome = "backend" THEN BackendExc(b) ELSE "OSError"

\* the connection object a Thermostat is built with: bluepy's takes
\* keep_connected and finds nif interfaces
NewLink(b, nif, keep) ==
    [backend |-> b, nif |-> nif, keep |-> keep, conn |-> "none", iface |-> 0,
     errors |-> 0, phase |-> "closed", value |-> <<>>, attempts |-> 0,
     nwrites |-> 0, tx |-> 0, done |-> 0, depth |-> 0, handler |-> FALSE,
     fault |-> "none"]

\* the keep_connected a bluepy connection is built with: the default False,
\* True, and the None that Thermostat passes on as its _iface
KeepArgs == {"False", "True", "None"}

Links ==
    {NewLink("bluepy", n, k) : n \in 1..MaxIfaces, k \in KeepArgs}
    \cup {NewLink(b, 1, "False") : b \in {"gattlib", "bleak", "legacy"}}

make_request_swallows(b, e) == IF e = BackendExc(b) THEN "none" ELSE e

\* the except clause of make_request: bluepy's re-raises, gattlib's and
\* bleak's wrap their library's exception; any other exception passes
make_request_raises(b, e) ==
    IF b \in {"gattlib", "bleak"} /\ e = BackendExc(b) THEN "BackendException"
    ELSE e

\* __exit__: disconnect, bluepy's only when keep_connected is False
exit_conn(l) ==
    IF l.backend = "bluepy" /\ l.keep # "False" THEN l.conn ELSE "none"

\* an exception leaves make_request; the with block, once entered, runs
\* __exit__ on the way
Raise(l, e, fault, conn) ==
    [link |-> [l EXCEPT !.phase = "closed", !.done = @ + 1, !.conn = conn,
                        !.fault = fault],
     raised |-> make_request_raises(l.backend, e)]

Step(l) == [link |-> l, raised |-> "none"]

\* make_request is entered with the payload
BeginRequest(l, value) ==
    [l EXCEPT !.phase = "enter", !.value = value, !.attempts = 0,
              !.nwrites = 0, !.tx = @ + 1, !.depth = 0, !.handler = FALSE]

\* __enter__ up to the first connection attempt; bluepy's keeps a connection
\* whose getState() is "conn" and connects anew otherwise
enter(l, alive) ==
    IF l.backend = "bluepy"
    THEN IF l.conn = "conn" /\ alive
         THEN [l EXCEPT !.phase = "write"]
         ELSE [l EXCEPT !.conn = "none", !.errors = 0, !.phase = "connect1"]
    ELSE [l EXCEPT !.phase = "connect1"]

next_iface_no_wrap(l) == [l EXCEPT !.errors = @ + 1, !.iface = @ + 1]

next_iface_one_pass(l) ==
    [l EXCEPT !.errors = l.nif * 2, !.iface = (@ + 1) % l.nif]

\* bluepy's next_iface: the loop goes on while it returns True
next_iface(l) == [l EXCEPT !.errors = @ + 1, !.iface = (@ + 1) % l.nif]

\* one connection attempt of __enter__ (or of the legacy connect()) and what
\* follows it: the write, another attempt or an exception
connect(l, outcome) ==
    LET l1 == [l EXCEPT !.attempts = @ + 1]
        exc == ExcOf(l.backend, outcome)
    IN  IF outcome = "ok"
        THEN IF l.backend = "bleak"
             THEN Step([l1 EXCEPT !.conn = "conn", !.phase = "notify"])
             \* legacy: connect() of the except handler is followed by the
             \* nested write_command_raw, whose __enter__ connects again
             ELSE IF l.backend = "legacy" /\ l.handler
             THEN Step([l1 EXCEPT !.conn = "conn", !.phase = "connect1",
                                  !.handler = FALSE, !.depth = @ + 1])
             ELSE Step([l1 EXCEPT !.conn = "conn", !.phase = "write"])
        ELSE IF l.phase = "connect1"
        \* the first attempt: only the backend's exception is retried
        THEN IF outcome = "backend"
             THEN Step([l1 EXCEPT !.conn = "none", !.phase = "connect2"])
             ELSE Raise(l1, exc, "connect", "none")
        \* the second attempt: any exception ends it
        ELSE IF l.backend = "bluepy"
             THEN IF next_iface(l1).errors >= l.nif * 2
                  THEN Raise(next_iface(l1), exc, "connect", "none")
                  ELSE Step([next_iface(l1) EXCEPT !.phase = "connect1"])
             ELSE IF l.backend = "legacy"
             THEN Raise(l1, exc, "connect", "none")
             ELSE Raise(l1, "BackendException", "connect", "none")

\* bleak's __enter__ ends with start_notify; when it fails __exit__ is not
\* run and the client stays connected
start_notify(l, outcome) ==
    IF outcome = "ok" THEN Step([l EXCEPT !.phase = "write"])
    ELSE Raise(l, ExcOf(l.backend, outcome), "notify", l.conn)

\* the legacy except clause: "if exception is False" always holds, as the
\* nested call passes its arguments one position early; it disconnects,
\* connects and calls write_command_raw again
legacy_handler(l) ==
    Step([l EXCEPT !.conn = "none", !.phase = "connect1", !.handler = TRUE,
                   !.fault = "write"])

write_rewrites(l, outcome) ==
    LET l1 == [l EXCEPT !.nwrites = @ + 1]
    IN  IF outcome = "ok"
        THEN Step([l1 EXCEPT !.phase = IF DEFAULT_TIMEOUT # 0 THEN "wait" ELSE "exit"])
        ELSE IF outcome = "backend"
        THEN Step([l1 EXCEPT !.phase = "write", !.fault = "write"])
        ELSE Raise(l1, ExcOf(l.backend, outcome), "write", exit_conn(l))

\* the write of make_request (write_command_raw) and what follows it
write(l, outcome) ==
    LET l1 == [l EXCEPT !.nwrites = @ + 1]
    IN  IF outcome = "ok"
        THEN Step([l1 EXCEPT !.phase = IF DEFAULT_TIMEOUT # 0 THEN "wait" ELSE "exit"])
        ELSE IF l.backend = "legacy" /\ outcome = "backend"
        THEN legacy_handler(l1)
        ELSE Raise(l1, ExcOf(l.backend, outcome), "write", exit_conn(l))

\* a notification arrives during the wait and the callback ends with
\* exception e ("none": it returned).  bluepy and legacy run the callback
\* inside waitForNotifications, so e leaves make_request; gattlib runs it on
\* its own thread before it sets the event, bleak sets the event first and
\* runs it in the event loop: there e is lost
deliver(l, e) ==
    IF l.backend \in {"bluepy", "legacy"}
    THEN IF e # "none" THEN Raise(l, e, l.fault, exit_conn(l))
         ELSE IF l.backend = "bluepy" THEN Step([l EXCEPT !.phase = "exit"])
         \* while conn.waitForNotifications(timeout): continue
         ELSE Step(l)
    ELSE IF l.backend = "gattlib" /\ e # "none" THEN Step(l)
    ELSE Step([l EXCEPT !.phase = "exit"])

\* waitForNotifications raises the backend's exception (the device is gone)
wait_fails(l) ==
    IF l.backend = "legacy" THEN legacy_handler(l)
    ELSE Raise(l, BackendExc(l.backend), "wait", exit_conn(l))

\* the with block is left: __exit__
exit(l) == [l EXCEPT !.phase = "closed", !.done = @ + 1, !.conn = exit_conn(l)]

make_request_returns_early(l) == l.phase \in {"wait", "closed"}

\* make_request is a plain call: the command method goes on when it is over
make_request_returns(l) == l.phase = "closed"

\* what the device sends during a request: a boost status, a manual status
\* and a status cut short
LinkReplies == {StatusMsg(4, 0, 40, <<>>), StatusMsg(1, 0, 40, <<>>), <<2, 1, 0, 0>>}

InitLink ==
    /\ mirror = InitMirror
    /\ prev = InitMirror
    /\ notif = None
    /\ raised = "none"
    /\ call = NoCall
    /\ writes = <<>>
    /\ pc = "idle"
    /\ pend = None
    /\ link \in Links
    /\ codec = NoCodec

\* a command method runs up to its make_request
LinkIssue(op, arg, res, then) ==
    /\ call' = [op |-> op, arg |-> arg]
    /\ prev' = mirror
    /\ notif' = None
    /\ raised' = res.err
    /\ writes' = <<>>
    /\ mirror' = MirrorAfterCommand(mirror, op, arg)
    /\ codec' = codec
    /\ LET l == [link EXCEPT !.tx = 0, !.done = 0, !.fault = "none", !.nwrites = 0]
       IN  IF res.err # "none"
           THEN pc' = "idle" /\ pend' = None /\ link' = l
           ELSE pc' = "call" /\ pend' = then /\ link' = BeginRequest(l, res.payload)

LinkSetTargetTemperature ==
    /\ pc = "idle"
    /\ LinkIssue("target_temperature", <<84>>, target_temperature_setter(84), None)

LinkSetMode ==
    /\ pc = "idle"
    /\ \E mode \in {"Boost", "Manual", "Auto"} : \E end \in EndsFor(mode) :
        IF mode_setter_leaves_boost(mirror, mode)
        THEN LinkIssue("mode", <<mode>>, boost_setter(FALSE), Some(mode))
        ELSE LinkIssue("mode", <<mode>>, mode_setter_write(mirror, mode, end), None)

\* the mode setter goes on after self.boost = False
LinkResume ==
    /\ pc = "resume"
    /\ \E end \in EndsFor(pend[1]) :
        LET res == mode_setter_write(mirror, pend[1], end)
        IN  /\ raised' = res.err
            /\ IF res.err # "none"
               THEN pc' = "idle" /\ link' = link
               ELSE pc' = "call" /\ link' = BeginRequest(link, res.payload)
    /\ pend' = None
    /\ UNCHANGED <<mirror, prev, notif, call, writes, codec>>

LinkEnter ==
    /\ link.phase = "enter"
    /\ \E alive \in BOOLEAN : link' = enter(link, alive)
    /\ UNCHANGED <<mirror, prev, notif, raised, call, writes, pc, pend, codec>>

LinkConnect ==
    /\ link.phase \in {"connect1", "connect2"}
    /\ \E outcome \in Outcomes :
        /\ link' = connect(link, outcome).link
        /\ raised' = connect(link, outcome).raised
    /\ UNCHANGED <<mirror, prev, notif, call, writes, pc, pend, codec>>

LinkStartNotify ==
    /\ link.phase = "notify"
    /\ \E outcome \in Outcomes :
        /\ link' = start_notify(link, outcome).link
        /\ raised' = start_notify(link, outcome).raised
    /\ UNCHANGED <<mirror, prev, notif, call, writes, pc, pend, codec>>

\* the radio may fail the write of a request MaxRewrites times in a row
MayFail(l) == l.backend = "legacy" => l.depth < MaxRewrites

LinkWrite ==
    /\ link.phase = "write"
    /\ \E outcome \in Outcomes :
        /\ outcome = "backend" => MayFail(link)
        /\ link' = write(link, outcome).link
        /\ raised' = write(link, outcome).raised
    /\ writes' = Append(writes, link.value)
    /\ UNCHANGED <<mirror, prev, notif, call, pc, pend, codec>>

LinkDeliver(d) ==
    /\ link.phase = "wait"
    /\ notif' = Some(d)
    /\ LET h == handle_notification(mirror, d)
       IN  /\ mirror' = h.mirror
           /\ link' = deliver(link, h.raised).link
           /\ raised' = deliver(link, h.raised).raised
    /\ writes' = writes \o NotificationWrites(mirror, d)
    /\ UNCHANGED <<prev, call, pc, pend, codec>>

LinkTimeout ==
    /\ link.phase = "wait"
    /\ link' = [link EXCEPT !.phase = "exit"]
    /\ UNCHANGED <<mirror, prev, notif, raised, call, writes, pc, pend, codec>>

LinkWaitFails ==
    /\ link.phase = "wait"
    /\ link.backend \in {"bluepy", "legacy"}
    /\ MayFail(link)
    /\ link' = wait_fails(link).link
    /\ raised' = wait_fails(link).raised
    /\ UNCHANGED <<mirror, prev, notif, call, writes, pc, pend, codec>>

LinkExit ==
    /\ link.phase = "exit"
    /\ link' = exit(link)
    /\ UNCHANGED <<mirror, prev, notif, raised, call, writes, pc, pend, codec>>

\* make_request is over: its exception leaves the command method, or the
\* command method returns or goes on
LinkReturn ==
    /\ pc = "call"
    /\ make_request_returns(link)
    /\ pc' = IF raised # "none" THEN "idle" ELSE Returned
    /\ pend' = IF raised # "none" THEN None ELSE pend
    /\ UNCHANGED <<mirror, prev, notif, raised, call, writes, link, codec>>

NextLink ==
    \/ LinkSetTargetTemperature
    \/ LinkSetMode
    \/ LinkResume
    \/ LinkEnter
    \/ LinkConnect
    \/ LinkStartNotify
    \/ LinkWrite
    \/ \E d \in LinkReplies : LinkDeliver(d)
    \/ LinkTimeout
    \/ LinkWaitFails
    \/ LinkExit
    \/ LinkReturn

SpecLink == InitLink /\ [][NextLink]_vars

----------------------------------------------------------------------------
(* The claims about the link, under SpecLink *)

(* C22, as stated: within one transaction the link makes at most two       *)
(* connection attempts; when the second fails too the transaction fails    *)
(* with an error and nothing is written.                                   *)
C22_AtMostTwoAttempts ==
    link.backend \in Eq3btBackends =>
        /\ link.attempts <= 2
        /\ link.fault = "connect" => (raised # "none" /\ link.nwrites = 0)

(* C22, amended: gattlib and bleak make at most two connection attempts in *)
(* a transaction, the second only after the first failed with the          *)
(* backend's own exception.  bluepy makes two attempts per pass and up to  *)
(* 2 * (number of interfaces) passes, 4 * (number of interfaces) attempts  *)
(* when all fail, and none when a kept connection is still up.  In every   *)
(* backend, when connecting is given up the transaction fails with an      *)
(* error and nothing is written.                                           *)
C22_ConnectAttempts ==
    link.backend \in Eq3btBackends =>
        /\ link.backend \in {"gattlib", "bleak"} => link.attempts <= 2
        /\ link.phase = "connect2" => link.attempts % 2 = 1
        /\ link.backend = "bluepy" =>
            /\ link.attempts <= 4 * link.nif
            /\ (link.fault = "connect" /\ link.attempts % 2 = 0)
                    => link.attempts = 4 * link.nif
        /\ link.fault = "connect" =>
                (raised # "none" /\ link.nwrites = 0 /\ link.phase = "closed")

\* bluepy with one interface gave up after four failed attempts
C22_Witness ==
    /\ link.backend = "bluepy"
    /\ link.nif = 1
    /\ link.attempts = 4
    /\ link.fault = "connect"
    /\ raised = "BTLEException"
    /\ writes = <<>>

(* C23, as stated: a payload is written at most once per request; a failed *)
(* write is not followed by a second write of the payload.                 *)
C23_WrittenOnce == link.nwrites <= 1

(* C23, amended: make_request of the three eq3bt backends writes a payload *)
(* at most once per request and a failed write ends the request with an    *)
(* error.  write_command_raw of the legacy link, when the write or the     *)
(* wait fails with BTLEException, reconnects and writes the same payload   *)
(* again, every time it fails.                                             *)
C23_WritesPerRequest ==
    /\ link.backend \in Eq3btBackends =>
        /\ link.nwrites <= 1
        /\ link.fault = "write" => (link.phase = "closed" /\ raised # "none")
    /\ link.backend = "legacy" =>
        /\ link.phase \in {"wait", "exit"} => link.nwrites = link.depth + 1
        /\ link.nwrites >= 1 =>
                writes[Len(writes)] = link.value
                    /\ \A i \in 1..link.nwrites :
                            writes[Len(writes) + 1 - i] = link.value

\* the legacy link wrote a target temperature a second time after the first
\* write failed
C23_Witness ==
    /\ link.backend = "legacy"
    /\ link.nwrites = 2
    /\ link.phase = "wait"
    /\ writes = <<<<65, 42>>, <<65, 42>>>>

(* C24: a transport failure that ends a transaction of an eq3bt backend    *)
(* (connecting given up, start_notify, the write or the wait failing)      *)
(* leaves the command operation as an exception: the operation does not    *)
(* return normally and the mode setter does not go on to its second write. *)
C24_FailurePropagates ==
    (link.backend \in Eq3btBackends /\ link.fault # "none") =>
        /\ raised # "none"
        /\ link.phase = "closed"
        /\ pc \in {"call", "idle"}
        /\ pc = "idle" => pend = None

\* bleak failed the boost-off write of the mode setter: BackendException,
\* and no mode write follows
C24_Witness ==
    /\ link.backend = "bleak"
    /\ call = [op |-> "mode", arg |-> <<"Manual">>]
    /\ link.fault = "write"
    /\ raised = "BackendException"
    /\ pc = "idle"
    /\ writes = <<<<69, 0>>>>

----------------------------------------------------------------------------
(* The adapters of eq3bt.structures applied to drawn inputs: a value is    *)
(* encoded and the bytes decoded again (away end, offset, temperature), or *)
(* a byte is decoded and the value encoded again (schedule time); the      *)
(* temperature_offset setter is called with the offset the adapter got.    *)

MaxTimeRaw == 150
MaxOffset == 16
MaxTemp == 124

\* datetime objects handed to AwayDataAdapter._encode
AwayHours == {[year |-> 2000, month |-> 1, day |-> 1, hour |-> 0],
              [year |-> 2024, month |-> 2, day |-> 29, hour |-> 7],
              [year |-> 2099, month |-> 12, day |-> 31, hour |-> 23],
              [year |-> 1999, month |-> 12, day |-> 31, hour |-> 23],
              [year |-> 2100, month |-> 1, day |-> 1, hour |-> 0]}
AwayInputs == {[year |-> h.year, month |-> h.month, day |-> h.day,
                hour |-> h.hour, minute |-> mi] : h \in AwayHours, mi \in 0..59}
\* the byte of a schedule entry, offsets and temperatures in quarter degrees
TimeInputs == 0..MaxTimeRaw
OffsetInputs == (-MaxOffset)..MaxOffset
TempInputs == 0..MaxTemp

CodecIn(fn, arg) ==
    [fn |-> fn, arg |-> arg, stage |-> "in", enc |-> None, dec |-> None,
     err |-> "none"]

InitCodec ==
    /\ mirror = InitMirror
    /\ prev = InitMirror
    /\ notif = None
    /\ raised = "none"
    /\ call = NoCall
    /\ writes = <<>>
    /\ pc = "idle"
    /\ pend = None
    /\ link = NoLink
    /\ \/ \E p \in AwayInputs : codec = CodecIn("away", p)
       \/ \E r \in TimeInputs : codec = CodecIn("time", r)
       \/ \E o \in OffsetInputs : codec = CodecIn("offset", o)
       \/ \E t \in TempInputs : codec = CodecIn("temp", t)

CodecIdle == UNCHANGED <<mirror, prev, notif, raised, call, writes, pc, pend, link>>

\* AwayDataAdapter._encode
CodecAwayEncode ==
    /\ codec.fn = "away" /\ codec.stage = "in"
    /\ codec' = IF AwayEncodeError(codec.arg) # "none"
                THEN [codec EXCEPT !.stage = "failed",
                                   !.err = AwayEncodeError(codec.arg)]
                ELSE [codec EXCEPT !.stage = "enc",
                                   !.enc = Some(AwayEncode(codec.arg))]
    /\ CodecIdle

\* AwayDataAdapter._decode
CodecAwayDecode ==
    /\ codec.fn = "away" /\ codec.stage = "enc"
    /\ codec' = IF AwayDecodeOk(codec.enc[1])
                THEN [codec EXCEPT !.stage = "dec",
                                   !.dec = Some(AwayDecode(codec.enc[1]))]
                ELSE [codec EXCEPT !.stage = "failed", !.err = "ValueError"]
    /\ CodecIdle

\* TimeAdapter._decode
CodecTimeDecode ==
    /\ codec.fn = "time" /\ codec.stage = "in"
    /\ codec' = IF TimeDecodeOk(codec.arg)
                THEN [codec EXCEPT !.stage = "dec",
                                   !.dec = Some(TimeDecode(codec.arg))]
                ELSE [codec EXCEPT !.stage = "failed", !.err = "ValueError"]
    /\ CodecIdle

\* TimeAdapter._encode
CodecTimeEncode ==
    /\ codec.fn = "time" /\ codec.stage = "dec"
    /\ codec' = [codec EXCEPT !.stage = "enc",
                              !.enc = Some(TimeEncode(codec.dec[1]))]
    /\ CodecIdle

\* TempOffsetAdapter._encode
CodecOffsetEncode ==
    /\ codec.fn = "offset" /\ codec.stage = "in"
    /\ codec' = IF TempOffsetEncodeError(codec.arg) # "none"
                THEN [codec EXCEPT !.stage = "failed",
                                   !.err = TempOffsetEncodeError(codec.arg)]
                ELSE [codec EXCEPT !.stage = "enc",
                                   !.enc = Some(TempOffsetEncode(codec.arg))]
    /\ CodecIdle

\* TempOffsetAdapter._decode
CodecOffsetDecode ==
    /\ codec.fn = "offset" /\ codec.stage = "enc"
    /\ codec' = [codec EXCEPT !.stage = "dec",
                              !.dec = Some(TempOffsetDecode(codec.enc[1]))]
    /\ CodecIdle

\* Thermostat.temperature_offset (setter) called with the same offset
CodecOffsetSet ==
    /\ codec.fn = "offset" /\ codec.stage \in {"dec", "failed"}
    /\ pc = "idle"
    /\ codec' = [codec EXCEPT !.stage = "set"]
    /\ LET res == temperature_offset_setter(codec.arg)
       IN  /\ call' = [op |-> "temperature_offset", arg |-> <<codec.arg>>]
           /\ prev' = mirror
           /\ raised' = res.err
           /\ IF res.err # "none"
              THEN /\ writes' = <<>>
                   /\ pc' = "idle"
                   /\ mirror' = mirror
              ELSE /\ writes' = <<res.payload>>
                   /\ pc' = "wait"
                   /\ mirror' = MirrorAfterCommand(mirror, "temperature_offset",
                                                   <<codec.arg>>)
    /\ UNCHANGED <<notif, pend, link>>

\* TempAdapter._encode
CodecTempEncode ==
    /\ codec.fn = "temp" /\ codec.stage = "in"
    /\ codec' = [codec EXCEPT !.stage = "enc",
                              !.enc = Some(TempEncode(codec.arg))]
    /\ CodecIdle

\* TempAdapter._decode
CodecTempDecode ==
    /\ codec.fn = "temp" /\ codec.stage = "enc"
    /\ codec' = [codec EXCEPT !.stage = "dec",
                              !.dec = Some(TempDecode(codec.enc[1]))]
    /\ CodecIdle

NextCodec ==
    \/ CodecAwayEncode
    \/ CodecAwayDecode
    \/ CodecTimeDecode
    \/ CodecTimeEncode
    \/ CodecOffsetEncode
    \/ CodecOffsetDecode
    \/ CodecOffsetSet
    \/ CodecTempEncode
    \/ CodecTempDecode

SpecCodec == InitCodec /\ [][NextCodec]_vars

----------------------------------------------------------------------------
(* The claims about the adapters, under SpecCodec *)

(* C25: an away end with year in 2000..2099 and minute 0 or 30 encodes to  *)
(* the bytes [day, year - 2000, hour * 2 | halfhour, month] and decoding   *)
(* these bytes yields the same year, month, day, hour and minute.          *)
C25_AwayRoundTrip ==
    (/\ codec.fn = "away"
     /\ codec.stage # "in"
     /\ codec.arg.year \in 2000..2099
     /\ codec.arg.minute \in {0, 30}) =>
        /\ codec.err = "none"
        /\ codec.enc = Some(<<codec.arg.day, codec.arg.year - 2000,
                              codec.arg.hour * 2 + codec.arg.minute \div 30,
                              codec.arg.month>>)
        /\ codec.stage = "dec" => codec.dec = Some(codec.arg)

\* 2024-02-29 07:30 went through both directions
C25_Witness ==
    /\ codec.fn = "away"
    /\ codec.stage = "dec"
    /\ codec.arg = [year |-> 2024, month |-> 2, day |-> 29, hour |-> 7,
                    minute |-> 30]
    /\ codec.enc = Some(<<29, 24, 15, 2>>)
    /\ codec.dec = Some(codec.arg)

(* C26: every minute from 1 to 59 encodes to the bytes of minute 30 of the *)
(* same hour (the hour byte is hour * 2 + 1), and minute 0 is the only     *)
(* minute whose hour byte is hour * 2.                                     *)
C26_AwayLossy ==
    (codec.fn = "away" /\ codec.stage \in {"enc", "dec"}) =>
        /\ codec.arg.minute # 0 =>
                codec.enc = Some(<<codec.arg.day, codec.arg.year - 2000,
                                   codec.arg.hour * 2 + 1, codec.arg.month>>)
        /\ codec.arg.minute = 0 <=> codec.enc[1][3] = codec.arg.hour * 2
        /\ (codec.stage = "dec" /\ codec.arg.minute # 0) =>
                codec.dec = Some([codec.arg EXCEPT !.minute = 30])

\* 07:17 came out as the bytes of 07:30
C26_Witness ==
    /\ codec.fn = "away"
    /\ codec.stage = "dec"
    /\ codec.arg = [year |-> 2024, month |-> 2, day |-> 29, hour |-> 7,
                    minute |-> 17]
    /\ codec.enc = Some(<<29, 24, 15, 2>>)
    /\ codec.dec[1].minute = 30

(* C27: for every byte r in 0..144, encoding the decoded value of r gives  *)
(* r again; 144 decodes to the 24:00 placeholder, which is not the         *)
(* decoding of 0 (00:00), and the placeholder encodes to 144, not to 0.    *)
C27_TimeRoundTrip ==
    (codec.fn = "time" /\ codec.arg \in 0..144 /\ codec.stage # "in") =>
        /\ codec.err = "none"
        /\ codec.arg = 144 <=> codec.dec = Some(Some(HOUR_24_PLACEHOLDER))
        /\ codec.arg = 0 <=> codec.dec = Some(<<0, 0>>)
        /\ codec.stage = "enc" => codec.enc = Some(codec.arg)

\* the byte 144 became the placeholder and came back as 144
C27_Witness ==
    /\ codec.fn = "time"
    /\ codec.arg = 144
    /\ codec.stage = "enc"
    /\ codec.dec = Some(Some(HOUR_24_PLACEHOLDER))
    /\ codec.enc = Some(144)

(* C28: for every offset o from -3.5 to 3.5 in steps of 0.5, the adapter   *)
(* encodes o to the byte 2 * o + 7, in 0..14, decoding the byte yields o,  *)
(* and the temperature_offset setter writes [0x13, the same byte].         *)
C28_OffsetRoundTrip ==
    (/\ codec.fn = "offset"
     /\ codec.arg \in -14..14
     /\ codec.arg % 2 = 0
     /\ codec.stage # "in") =>
        /\ codec.err = "none"
        /\ codec.enc[1] \in 0..14
        /\ 2 * (codec.enc[1] - 7) = codec.arg
        /\ codec.stage \in {"dec", "set"} => codec.dec = Some(codec.arg)
        /\ codec.stage = "set" =>
                (raised = "none" /\ writes = <<<<19, codec.enc[1]>>>>)

\* -3.5 C: byte 0, decoded to -3.5 C, and [0x13, 0x00] written by the setter
C28_Witness ==
    /\ codec.fn = "offset"
    /\ codec.arg = -14
    /\ codec.stage = "set"
    /\ codec.enc = Some(0)
    /\ codec.dec = Some(-14)
    /\ writes = <<<<19, 0>>>>

(* C29: for every temperature t from 5.0 to 29.5 in steps of 0.5, the      *)
(* adapter encodes t to the byte 2 * t and decoding the byte yields t.     *)
C29_TempRoundTrip ==
    (/\ codec.fn = "temp"
     /\ codec.arg \in 20..118
     /\ codec.arg % 2 = 0
     /\ codec.stage # "in") =>
        /\ 2 * codec.enc[1] = codec.arg
        /\ codec.stage = "dec" => codec.dec = Some(codec.arg)

\* 29.5 C: byte 59, decoded to 29.5 C
C29_Witness ==
    /\ codec.fn = "temp"
    /\ codec.arg = 118
    /\ codec.stage = "dec"
    /\ codec.enc = Some(59)
    /\ codec.dec = Some(118)

----------------------------------------------------------------------------
(* The claims about the away end and the Manual write *)

\* the away period a status payload carries in its bytes 7..10
AwayOf(d) ==
    [year |-> 2000 + d[8], month |-> d[10], day |-> d[7],
     hour |-> d[9] \div 2, minute |-> 30 * (d[9] % 2)]

\* a status that parses and puts the mirror in Away: AWAY set, BOOST clear
SetsAway(d) == WellFormedStatus(d) /\ Flag(d[3], 2) /\ ~Flag(d[3], 4)

(* C31: whenever the mode is Away, away_end is set, and it is the period    *)
(* decoded from the status that set the mode to Away: after a status was    *)
(* applied that gives Away, away_end is the period of its bytes; any other  *)
(* notification that leaves the mode at Away left mode and away_end alone.  *)
C31_AwayEndOfAwayStatus ==
    /\ mirror.mode = "Away" => mirror.away_end # None
    /\ (Handled /\ WellFormedStatus(Data) /\ mirror.mode = "Away") =>
            (SetsAway(Data) /\ mirror.away_end = Some(AwayOf(Data)))
    /\ (Handled /\ ~WellFormedStatus(Data) /\ mirror.mode = "Away") =>
            (prev.mode = "Away" /\ mirror.away_end = prev.away_end)

\* a second Away status with another period replaced the first period
C31_Witness ==
    /\ notif = Some(StatusMsg(2, 0, 35, AwayB))
    /\ prev.mode = "Away"
    /\ prev.away_end = Some(AwayOf(StatusMsg(2, 0, 35, AwayA)))
    /\ mirror.mode = "Away"
    /\ mirror.away_end = Some([year |-> 2020, month |-> 1, day |-> 1,
                               hour |-> 8, minute |-> 30])

(* C32: a notification that is not a status with AWAY set and BOOST clear   *)
(* leaves away_end as it was; an away_end that is set stays set.            *)
C32_AwayEndKept ==
    /\ (Handled /\ ~SetsAway(Data)) => mirror.away_end = prev.away_end
    /\ (Handled /\ prev.away_end # None) => mirror.away_end # None

\* an AWAY+BOOST status with another period, and an Auto status, handled
\* with an away end stored: Boost (or Auto), and the stored end is kept
C32_Witness ==
    /\ notif \in {Some(StatusMsg(6, 0, 35, AwayB)), Some(StatusMsg(0, 0, 40, <<>>))}
    /\ prev.away_end = Some(AwayOf(StatusMsg(2, 0, 35, AwayA)))
    /\ mirror.mode \in {"Boost", "Auto"}
    /\ mirror.away_end = prev.away_end

(* C33: the mode setter called with Manual writes [0x40, 0x40 | r] with r   *)
(* in 10..59, never the sentinel 9 or 60; called outside Boost, r is twice  *)
(* the target of the mirror clamped to 5.0 .. 29.5 C: 10 for the initial    *)
(* -1 and for 4.5, 59 for 30.0.                                             *)
C33_ManualNeverSentinel ==
    (call.op = "mode" /\ call.arg[1] = "Manual" /\ writes # <<>>
        /\ writes[Len(writes)] # <<69, 0>>) =>
        LET w == writes[Len(writes)]
            t == prev.target_temperature
        IN  /\ Len(w) = 2
            /\ w[1] = 64
            /\ w[2] - 64 \in 10..59
            /\ prev.mode # "Boost" =>
                    w[2] - 64 = IF t < 20 THEN 10
                                ELSE IF t > 118 THEN 59 ELSE t \div 2

\* Manual set with the target of Open (30.0 C) in the mirror: r = 59
C33_Witness ==
    /\ call = [op |-> "mode", arg |-> <<"Manual">>]
    /\ prev.mode = "Open"
    /\ prev.target_temperature = 120
    /\ writes = <<<<64, 123>>>>

----------------------------------------------------------------------------
(* mode_readable, and statuses of every kind of target temperature *)

\* the words mode_readable appends for the flags after MANUAL
ReadableFlags(mode) ==
    (IF Flag(mode, AWAY) THEN <<"holiday">> ELSE <<>>)
    \o (IF Flag(mode, BOOST) THEN <<"boost">> ELSE <<>>)
    \o (IF Flag(mode, DST) THEN <<"dst">> ELSE <<>>)
    \o (IF Flag(mode, WINDOW) THEN <<"window">> ELSE <<>>)
    \o (IF Flag(mode, LOCKED) THEN <<"locked">> ELSE <<>>)
    \o (IF Flag(mode, LOW_BATTERY) THEN <<"low battery">> ELSE <<>>)

\* Thermostat.mode_readable on a mirror that holds a status: the opening
\* word(s), the temperature of "manual (<t>C)", and the words of the flags
mode_readable(m) ==
    LET mode == m.raw_mode[1]
    IN  [head |-> IF Flag(mode, MANUAL)
                  THEN IF m.target_temperature < EQ3BT_MIN_TEMP THEN "manual off"
                       ELSE IF m.target_temperature >= EQ3BT_MAX_TEMP THEN "manual on"
                       ELSE "manual (C)"
                  ELSE "auto",
         temp |-> IF Flag(mode, MANUAL)
                        /\ m.target_temperature >= EQ3BT_MIN_TEMP
                        /\ m.target_temperature < EQ3BT_MAX_TEMP
                  THEN Some(m.target_temperature) ELSE None,
         flags |-> ReadableFlags(mode)]

\* 0, 4.0, 4.5, 5.0, 20.0, 29.0, 29.5, 30.0, 30.5 and 127.5 C
ModeTempBytes == {0, 8, 9, 10, 40, 58, 59, 60, 61, 255}
\* auto, manual, boost, manual+boost, manual+window+locked+low battery
ModeStatuses == {StatusMsg(f, 0, t, <<>>) : f \in PlainFlags, t \in ModeTempBytes}

NextModes == \E d \in ModeStatuses : Notify(d)

SpecModes == Init /\ [][NextModes]_vars

(* C38: after a status with MANUAL set and BOOST and AWAY clear,            *)
(* mode_readable starts with 'manual on' exactly when the mode is Open,     *)
(* with 'manual off' exactly when it is Closed and with 'manual (<t>C)'     *)
(* exactly when it is Manual, for every target temperature byte.            *)
C38_ReadableAgrees ==
    (Handled /\ WellFormedStatus(Data) /\ Flag(Data[3], 1)
        /\ ~Flag(Data[3], 2) /\ ~Flag(Data[3], 4)) =>
        /\ mode_readable(mirror).head = "manual on" <=> mirror.mode = "Open"
        /\ mode_readable(mirror).head = "manual off" <=> mirror.mode = "Closed"
        /\ mode_readable(mirror).head = "manual (C)" <=> mirror.mode = "Manual"

(* C39: every write of set_away with an end time has a mode byte with bit   *)
(* 0x80 set and bit 0x40 clear and a temperature field of 5.0 .. 29.5 C; a  *)
(* temperature outside that range is an error and nothing is written.       *)
C39_SetAwayTemperature ==
    (call.op = "set_away" /\ call.arg[1] # None) =>
        /\ writes # <<>> =>
            /\ Flag(writes[1][2], 128)
            /\ ~Flag(writes[1][2], 64)
            /\ writes[1][2] - 128 \in 10..59
        /\ (call.arg[2] < EQ3BT_MIN_TEMP \/ call.arg[2] > EQ3BT_MAX_TEMP) =>
                (raised # "none" /\ writes = <<>>)

----------------------------------------------------------------------------
(* The claims about the release of the link and the connect loop, under    *)
(* SpecLink                                                                *)

(* C36: when a transaction is over the link is released: no connection is  *)
(* open between transactions with bleak and gattlib, nor with bluepy when   *)
(* keep_connected is not set.                                               *)
C36_LinkReleased ==
    (/\ link.phase = "closed"
     /\ \/ link.backend \in {"gattlib", "bleak"}
        \/ link.backend = "bluepy" /\ link.keep \in {"False", "None"}) =>
        link.conn = "none"

(* C37: the connect loop of the bluepy link ends: the error counter never   *)
(* passes 2 * (number of interfaces), every pass makes at most two          *)
(* attempts, and when all attempts fail the loop raises with the counter at *)
(* 2 * (number of interfaces); the interface index stays within             *)
(* 0 .. (number of interfaces) - 1 and moves on by one, round-robin, with   *)
(* every counted error.                                                     *)
C37_ConnectLoopEnds ==
    /\ [](link.backend = "bluepy" =>
            /\ link.iface \in 0..(link.nif - 1)
            /\ link.errors <= 2 * link.nif
            /\ link.phase = "connect1" =>
                    (link.errors < 2 * link.nif /\ link.attempts = 2 * link.errors)
            /\ link.phase = "connect2" =>
                    (link.errors < 2 * link.nif /\ link.attempts = 2 * link.errors + 1)
            /\ (link.fault = "connect" /\ link.attempts % 2 = 0) =>
                    (link.errors = 2 * link.nif /\ raised # "none"))
    /\ [][(link.backend = "bluepy" /\ link'.errors = link.errors + 1) =>
            link'.iface = (link.iface + 1) % link.nif]_vars

\* two interfaces: eight failed attempts, the index back at the first one
C37_Witness ==
    /\ link.backend = "bluepy"
    /\ link.nif = 2
    /\ link.errors = 4
    /\ link.attempts = 8
    /\ link.iface = 0
    /\ link.fault = "connect"
    /\ raised = "BTLEException"

----------------------------------------------------------------------------
(* The notify event of the gattlib and the bleak link.  gattlib calls       *)
(* on_notification on its own thread, which runs beside the thread that is  *)
(* in make_request: the callback and the set() of the event are two steps   *)
(* the caller's steps may fall between.  bleak runs on_notification in the  *)
(* event loop, which runs only inside run_until_complete (start_notify, the *)
(* write, the wait, disconnect), and on_notification awaits nothing: it is  *)
(* one step.                                                                *)

\* how many notifications the device sends, how many requests are made
MaxNotifications == 3
MaxRequests == 2

EventBackends == {"gattlib", "bleak"}

\* __init__: gattlib's _notifyevent is None, bleak's an asyncio.Event()
NewEventLink(b) ==
    [backend |-> b, phase |-> "closed", conn |-> FALSE, tx |-> 0,
     event |-> IF b = "bleak" THEN "clear" ELSE "none",
     reset |-> 0, arrived |-> 0, applied |-> 0, waker |-> 0,
     handler |-> "idle", hid |-> 0, pending |-> <<>>, woke |-> "none"]

sets_event_first_always(b) == TRUE

\* the order inside on_notification: bleak sets the event and then calls the
\* callback, gattlib calls the callback and then sets the event
sets_event_first(b) == b = "bleak"

\* bleak's on_notification runs in one piece between two steps of the caller
handler_is_atomic(b) == b = "bleak"

\* self._notifyevent.set() for notification k; gattlib: if self._notifyevent
set_event(l, k) ==
    IF l.event = "clear" THEN [l EXCEPT !.event = "set", !.waker = k] ELSE l

\* self._callbacks[handle](data): the callback has run, to its end or to an
\* exception
callback_ran(l) == [l EXCEPT !.applied = @ + 1]

\* where the link hands notifications to on_notification: gattlib while
\* connected, bleak while the loop runs with the subscription made
listening(l) ==
    IF l.backend = "bleak" THEN l.phase \in {"notify", "write", "wait", "exit"}
    ELSE l.conn

InitEvent ==
    /\ mirror = InitMirror
    /\ prev = InitMirror
    /\ notif = None
    /\ raised = "none"
    /\ call = NoCall
    /\ writes = <<>>
    /\ pc = "idle"
    /\ pend = None
    /\ codec = NoCodec
    /\ \E b \in EventBackends : link = NewEventLink(b)

\* a command method calls make_request
EvBegin ==
    /\ pc = "idle"
    /\ link.tx < MaxRequests
    /\ call' = [op |-> "target_temperature", arg |-> <<84>>]
    /\ raised' = "none"
    /\ pc' = "call"
    /\ link' = [link EXCEPT !.tx = @ + 1, !.phase = "enter", !.woke = "none"]
    /\ UNCHANGED <<mirror, prev, notif, writes, pend, codec>>

\* __enter__: connect()
EvEnter ==
    /\ link.phase = "enter"
    /\ link' = [link EXCEPT !.conn = TRUE,
                            !.phase = IF link.backend = "bleak" THEN "notify"
                                      ELSE "arm"]
    /\ UNCHANGED <<mirror, prev, notif, raised, call, writes, pc, pend, codec>>

\* bleak's __enter__: start_notify has returned
EvStartNotify ==
    /\ link.phase = "notify"
    /\ link' = [link EXCEPT !.phase = "arm"]
    /\ UNCHANGED <<mirror, prev, notif, raised, call, writes, pc, pend, codec>>

\* make_request: gattlib assigns a new threading.Event(), bleak clear()s its
\* event
EvArm ==
    /\ link.phase = "arm"
    /\ link' = [link EXCEPT !.event = "clear", !.waker = 0,
                            !.reset = link.arrived, !.phase = "write"]
    /\ UNCHANGED <<mirror, prev, notif, raised, call, writes, pc, pend, codec>>

\* make_request: the write, which may raise the backend's exception
EvWrite ==
    /\ link.phase = "write"
    /\ \E outcome \in {"ok", "backend"} :
        /\ link' = [link EXCEPT !.phase = IF outcome = "ok" /\ DEFAULT_TIMEOUT # 0
                                          THEN "wait" ELSE "exit"]
        /\ raised' = IF outcome = "ok" THEN "none"
                     ELSE make_request_raises(link.backend, BackendExc(link.backend))
    /\ writes' = Append(writes, target_temperature_setter(84).payload)
    /\ UNCHANGED <<mirror, prev, notif, call, pc, pend, codec>>

\* the wait returns because the event is set
EvWake ==
    /\ link.phase = "wait"
    /\ link.event = "set"
    /\ handler_is_atomic(link.backend) => link.handler = "idle"
    /\ link' = [link EXCEPT !.phase = "exit", !.woke = "notification"]
    /\ UNCHANGED <<mirror, prev, notif, raised, call, writes, pc, pend, codec>>

\* the wait returns after the timeout
EvTimeout ==
    /\ link.phase = "wait"
    /\ link.event # "set"
    /\ link' = [link EXCEPT !.phase = "exit", !.woke = "timeout"]
    /\ UNCHANGED <<mirror, prev, notif, raised, call, writes, pc, pend, codec>>

\* __exit__: disconnect(), self._conn = None
EvExit ==
    /\ link.phase = "exit"
    /\ link' = [link EXCEPT !.phase = "closed", !.conn = FALSE]
    /\ UNCHANGED <<mirror, prev, notif, raised, call, writes, pc, pend, codec>>

\* make_request returns, or raises, to the command method
EvReturn ==
    /\ pc = "call"
    /\ link.phase = "closed"
    /\ pc' = "idle"
    /\ UNCHANGED <<mirror, prev, notif, raised, call, writes, pend, link, codec>>

\* on_notification is called with payload d: all of it (bleak), or up to the
\* point where gattlib's thread may be held up.  An exception of the
\* callback ends on_notification and reaches no caller.
EvNotify(d) ==
    /\ link.handler = "idle"
    /\ listening(link)
    /\ link.arrived < MaxNotifications
    /\ LET k == link.arrived + 1
           h == handle_notification(mirror, d)
           l0 == [link EXCEPT !.arrived = k]
       IN  IF handler_is_atomic(link.backend)
           THEN /\ link' = callback_ran(set_event(l0, k))
                /\ mirror' = h.mirror /\ prev' = mirror /\ notif' = Some(d)
           ELSE IF sets_event_first(link.backend)
           THEN /\ link' = [set_event(l0, k) EXCEPT !.handler = "half", !.hid = k,
                                                    !.pending = d]
                /\ UNCHANGED <<mirror, prev, notif>>
           ELSE /\ link' = IF h.raised # "none" THEN callback_ran(l0)
                           ELSE [callback_ran(l0) EXCEPT !.handler = "half",
                                                         !.hid = k, !.pending = d]
                /\ mirror' = h.mirror /\ prev' = mirror /\ notif' = Some(d)
    /\ UNCHANGED <<raised, call, writes, pc, pend, codec>>

\* gattlib's thread goes on with the rest of on_notification
EvNotifyFinish ==
    /\ link.handler = "half"
    /\ LET l0 == [link EXCEPT !.handler = "idle", !.hid = 0, !.pending = <<>>]
           h == handle_notification(mirror, link.pending)
       IN  IF sets_event_first(link.backend)
           THEN /\ link' = callback_ran(l0)
                /\ mirror' = h.mirror /\ prev' = mirror
                /\ notif' = Some(link.pending)
           ELSE /\ link' = set_event(l0, link.hid)
                /\ UNCHANGED <<mirror, prev, notif>>
    /\ UNCHANGED <<raised, call, writes, pc, pend, codec>>

NextEvent ==
    \/ EvBegin
    \/ EvEnter
    \/ EvStartNotify
    \/ EvArm
    \/ EvWrite
    \/ EvWake
    \/ EvTimeout
    \/ EvExit
    \/ EvReturn
    \/ \E d \in LinkReplies : EvNotify(d)
    \/ EvNotifyFinish

SpecEvent == InitEvent /\ [][NextEvent]_vars

(* C34: when the wait of make_request ended because a notification set the *)
(* event, the callback for that notification has run to its end: the       *)
(* mirror the caller sees holds what the callback made of it.              *)
C34_CallbackBeforeWake ==
    link.woke = "notification" =>
        /\ link.waker \in 1..link.applied
        /\ notif # None
        /\ (link.waker = link.arrived /\ link.handler = "idle") =>
                mirror = handle_notification(prev, Data).mirror

\* gattlib: the request returned on a boost status, the mirror is in Boost
C34_Witness ==
    /\ link.backend = "gattlib"
    /\ link.woke = "notification"
    /\ link.phase = "closed"
    /\ pc = "idle"
    /\ link.waker = 1
    /\ link.applied = 1
    /\ notif = Some(StatusMsg(4, 0, 40, <<>>))
    /\ mirror.mode = "Boost"

(* C35: the wait of a transaction is ended early only by a notification    *)
(* that was handed to on_notification after that transaction reset its      *)
(* event: with no notification since the reset the wait runs to the timeout *)
C35_WakeOnlyByNewNotification ==
    link.woke = "notification" => link.waker > link.reset

====
